---- MODULE Spec2Model ----
(***************************************************************************)
(* Model of the BPMN widget's diagram validation and task-metadata         *)
(* synchronisation: the rule engine (validations/index.js and its rules),  *)
(* the task extractor and the task updater, the bottleneck analyser, and   *)
(* the editor components that call them (loading, saving, host values).    *)
(***************************************************************************)
EXTENDS Naturals, Integers, Sequences, FiniteSets, TLC

VARIABLES
    registry,    \* elementRegistry.getAll(): the diagram's elements, in iteration order
    config,      \* the rule configuration handed to the last validateDiagram call
    result,      \* what that call produced: returned {errors, warnings, all} or threw
    ruleOut,     \* the violations a rule function returned when applied on its own
    records,     \* the TaskRecord list handed to the last updateTasks call
    transactions, \* the elements the last updateTasks call committed through updateProperties
    extracted,   \* what the last extractTasks call returned
    phase,       \* which operation acted last
    loaded,      \* the diagram as it was imported, before any updateTasks call
    named,       \* the taskIds named by the records of the updateTasks calls so far
    calls,       \* how many updateTasks and bottleneck calls were made so far
    markers,     \* canvas: the ids of the elements carrying the "bottleneck-high" marker
    durationString, \* the argument of the last parseDuration call
    totalMinutes,   \* what that call returned
    importsInFlight,     \* the importXML calls whose promise has not resolved, oldest first
    lastImportedXml,     \* BpmnModelerComponent: lastImportedXmlRef.current
    isLoading,           \* BpmnEditor: true until handleModelerReady received the methods
    isSaving,            \* BpmnEditor: true while handleSave runs
    lastAppliedTaskJson, \* BpmnEditor: lastAppliedTaskJsonRef.current
    validationResults,   \* BpmnEditor: the {errors, warnings} shown in the panel
    microtasks,          \* the continuations of async handlers waiting to run, oldest first
    calledDuringImport,  \* the operations invoked on the modeler while an import was in flight
    markersAboveAverage, \* canvas: the "bottleneck-high" markers the above-average variant sets
    analysedTasks,       \* the task list handed to both variants of applyBottleneckColors
    initialXml,          \* BpmnEditor: the initialXml prop, the host's bpmnXML attribute
    currentXml,          \* BpmnEditor: the currentXml state, the modeler's initialXml prop
    lastLoadedXml,       \* BpmnEditor: lastLoadedXmlRef.current
    taskDataJson,        \* BpmnEditor: the taskDataJson prop, the host's attribute
    hostWrites,          \* the setValue calls on host attributes not rendered yet, oldest first
    validationMarkers,   \* canvas: the ids carrying "bpmn-error" and "bpmn-warning"
    isBottleneckMode,    \* BpmnEditor: the isBottleneckMode state
    save,                \* the handleSave call under way or last finished, and what it did
    passes               \* the validation passes started and the pass whose results are shown

variantVars == <<markersAboveAverage, analysedTasks>>

analysisVars == <<markers, durationString, totalMinutes, variantVars>>

historyVars == <<loaded, named, calls>>

editorVars ==
    <<initialXml, currentXml, lastLoadedXml, taskDataJson, hostWrites, validationMarkers,
      isBottleneckMode, save, passes>>

widgetVars ==
    <<importsInFlight, lastImportedXml, isLoading, isSaving, lastAppliedTaskJson,
      validationResults, microtasks, calledDuringImport, editorVars>>

vars == <<registry, config, result, ruleOut, records, transactions, extracted, phase,
          historyVars, analysisVars, widgetVars>>

(***************************************************************************)
(* Bounds of the model.                                                    *)
(***************************************************************************)
MaxElements == 3     \* elements of a diagram, shapes and connections together
MaxConfig == 2       \* rule ids of a configuration
MaxTasks == 2        \* shapes of a diagram whose metadata is read and written
MaxRecords == 2      \* task records handed to one updateTasks call

(***************************************************************************)
(* JavaScript values that are not strings.                                 *)
(***************************************************************************)
Null == "<null>"
Undefined == "<undefined>"

(***************************************************************************)
(* $type tags.  A tag is the sequence of its camel-case words after the    *)
(* namespace prefix, so that String.prototype.endsWith is computed and not *)
(* looked up.                                                              *)
(***************************************************************************)
StartEventType == <<"bpmn:", "Start", "Event">>
EndEventType == <<"bpmn:", "End", "Event">>
IntermediateEventType == <<"bpmn:", "Intermediate", "Throw", "Event">>
BoundaryEventType == <<"bpmn:", "Boundary", "Event">>
TaskType == <<"bpmn:", "Task">>
UserTaskType == <<"bpmn:", "User", "Task">>
GatewayType == <<"bpmn:", "Exclusive", "Gateway">>
SubProcessType == <<"bpmn:", "Sub", "Process">>
CallActivityType == <<"bpmn:", "Call", "Activity">>
DataObjectType == <<"bpmn:", "Data", "Object", "Reference">>
SequenceFlowType == <<"bpmn:", "Sequence", "Flow">>
AssociationType == <<"bpmn:", "Association">>

endsWith(type, suffix) ==
    /\ Len(suffix) <= Len(type)
    /\ SubSeq(type, Len(type) - Len(suffix) + 1, Len(type)) = suffix

(***************************************************************************)
(* validations/helpers.js                                                  *)
(***************************************************************************)
getAllElements(reg) == reg

isType(element, type) == element.type = type

isTask(element) == endsWith(element.type, <<"Task">>)

\* Mutant of isFlowNode: the SubProcess suffix is forgotten.
isFlowNode_NoSubProcess(element) ==
    \/ endsWith(element.type, <<"Task">>)
    \/ endsWith(element.type, <<"Event">>)
    \/ endsWith(element.type, <<"Gateway">>)

isFlowNode(element) ==
    \/ endsWith(element.type, <<"Task">>)
    \/ endsWith(element.type, <<"Event">>)
    \/ endsWith(element.type, <<"Gateway">>)
    \/ endsWith(element.type, <<"Sub", "Process">>)

getIncoming(reg, element) ==
    SelectSeq(reg, LAMBDA f : f.isConnection /\ f.target = element.id)

getOutgoing(reg, element) ==
    SelectSeq(reg, LAMBDA f : f.isConnection /\ f.source = element.id)

isBoundaryEvent(element) == element.attachedToRef # Undefined

(***************************************************************************)
(* The rules: each maps the diagram to a list of violations                *)
(* {elementId, message}.                                                   *)
(***************************************************************************)
Violation(elementId, message) == [elementId |-> elementId, message |-> message]

ViolationsFor(elements, message) ==
    [i \in 1..Len(elements) |-> Violation(elements[i].id, message)]

\* Mutant of startEventRule: the filter copied from the end-event rule.
startEventRule_FiltersEndEvents(reg) ==
    LET elements == getAllElements(reg)
        startEvents == SelectSeq(elements, LAMBDA e : isType(e, EndEventType))
    IN  IF Len(startEvents) = 0
        THEN << Violation(Null, "Process must have at least one Start Event") >>
        ELSE << >>

\* validations/rules/startEvent.rule.js
startEventRule(reg) ==
    LET elements == getAllElements(reg)
        startEvents == SelectSeq(elements, LAMBDA e : isType(e, StartEventType))
    IN  IF Len(startEvents) = 0
        THEN << Violation(Null, "Process must have at least one Start Event") >>
        ELSE << >>

\* validations/rules/endEvent.rule.js
endEventRule(reg) ==
    LET elements == getAllElements(reg)
        endEvents == SelectSeq(elements, LAMBDA e : isType(e, EndEventType))
    IN  IF Len(endEvents) = 0
        THEN << Violation(Null, "Process must have at least one End Event") >>
        ELSE << >>

\* validations/rules/orphanElements.rule.js
orphanElementsRule(reg) ==
    LET elements == getAllElements(reg)
        flagged(element) ==
            /\ isFlowNode(element)
            /\ ~isType(element, StartEventType)
            /\ ~isType(element, EndEventType)
            /\ ~isBoundaryEvent(element)
            /\ Len(getIncoming(reg, element)) = 0
            /\ Len(getOutgoing(reg, element)) = 0
    IN  ViolationsFor(SelectSeq(elements, flagged),
                      "Element is not connected to the process flow")

\* Mutant of taskMultipleOutgoingRule: one violation per unconditional flow
\* beyond the first, not one per task.
taskMultipleOutgoingRule_PerFlow(reg) ==
    LET elements == getAllElements(reg)
        unconditional(element) ==
            SelectSeq(SelectSeq(getOutgoing(reg, element),
                                LAMBDA f : f.type = SequenceFlowType),
                      LAMBDA f : ~f.conditionExpression)
        flagged(element) ==
            /\ isTask(element)
            /\ Len(unconditional(element)) >= 1
    IN  ViolationsFor(SelectSeq(elements, flagged),
            "Task has multiple unconditional outgoing flows. Consider using a Gateway.")

\* validations/rules/taskOutgoing.rule.js
taskMultipleOutgoingRule(reg) ==
    LET elements == getAllElements(reg)
        unconditional(element) ==
            SelectSeq(SelectSeq(getOutgoing(reg, element),
                                LAMBDA f : f.type = SequenceFlowType),
                      LAMBDA f : ~f.conditionExpression)
        flagged(element) ==
            /\ isTask(element)
            /\ Len(unconditional(element)) > 1
    IN  ViolationsFor(SelectSeq(elements, flagged),
            "Task has multiple unconditional outgoing flows. Consider using a Gateway.")

(***************************************************************************)
(* validations/index.js                                                    *)
(***************************************************************************)
RegisteredRuleIds ==
    {"start-event-required", "end-event-required",
     "no-orphan-elements", "task-multiple-outgoing"}

\* Names every object inherits from Object.prototype: ruleRegistry is an
\* object literal, so ruleRegistry[ruleId] finds them too.
InheritedNames == {"toString"}

\* ruleRegistry[ruleId]: the function found under that key, or undefined.
ruleRegistry(ruleId) ==
    CASE ruleId = "start-event-required" -> "startEventRule"
      [] ruleId = "end-event-required" -> "endEventRule"
      [] ruleId = "no-orphan-elements" -> "orphanElementsRule"
      [] ruleId = "task-multiple-outgoing" -> "taskMultipleOutgoingRule"
      [] ruleId \in InheritedNames -> "Object.prototype." \o ruleId
      [] OTHER -> Undefined

\* ruleFn(modeler) || []: what the function found under the key returns.  A
\* registered rule returns an array of violations; Object.prototype.toString
\* returns the string "[object Undefined]", which is truthy and no array.
callRule(ruleFn, reg) ==
    CASE ruleFn = "startEventRule" -> [isArray |-> TRUE, items |-> startEventRule(reg)]
      [] ruleFn = "endEventRule" -> [isArray |-> TRUE, items |-> endEventRule(reg)]
      [] ruleFn = "orphanElementsRule" ->
            [isArray |-> TRUE, items |-> orphanElementsRule(reg)]
      [] ruleFn = "taskMultipleOutgoingRule" ->
            [isArray |-> TRUE, items |-> taskMultipleOutgoingRule(reg)]
      [] OTHER -> [isArray |-> FALSE, items |-> << >>]

Truthy(value) == value \notin {Null, Undefined, ""}

\* Mutant of dedupKey: the rule id is left out of the key.
dedupKey_ElementOnly(ruleId, elementId) ==
    IF Truthy(elementId) THEN elementId ELSE "global"

\* `${ruleId}-${v.elementId || "global"}`
dedupKey(ruleId, elementId) ==
    ruleId \o "-" \o (IF Truthy(elementId) THEN elementId ELSE "global")

\* Mutant of resultElementId: a misspelt property name reads undefined.
resultElementId_Misspelt(elementId) == Null

\* elementId: v.elementId || null
resultElementId(elementId) == IF Truthy(elementId) THEN elementId ELSE Null

ValidationResult(ruleId, severity, v) ==
    [ruleId |-> ruleId, severity |-> severity,
     elementId |-> resultElementId(v.elementId), message |-> v.message]

\* violations.forEach(v => { ... }) from violation i on
RECURSIVE forEachViolation(_, _, _, _, _)
forEachViolation(ruleId, severity, violations, i, acc) ==
    IF i > Len(violations) THEN acc
    ELSE LET v == violations[i]
             key == dedupKey(ruleId, v.elementId)
         IN  IF key \in acc.seen
             THEN forEachViolation(ruleId, severity, violations, i + 1, acc)
             ELSE forEachViolation(ruleId, severity, violations, i + 1,
                    [seen |-> acc.seen \cup {key},
                     results |-> Append(acc.results,
                                        ValidationResult(ruleId, severity, v))])

\* Mutant of errorsOf: the filter copied from the warnings line.
errorsOf_FiltersWarnings(results) == SelectSeq(results, LAMBDA r : r.severity = "warning")

errorsOf(results) == SelectSeq(results, LAMBDA r : r.severity = "error")

warningsOf(results) == SelectSeq(results, LAMBDA r : r.severity = "warning")

Returned(results) ==
    [status |-> "returned", errors |-> errorsOf(results),
     warnings |-> warningsOf(results), all |-> results]

\* A TypeError leaves validateDiagram: the caller gets no result object.
Threw == [status |-> "threw", errors |-> << >>, warnings |-> << >>, all |-> << >>]

\* for (const ruleId in config) { ... } from key i on
RECURSIVE forEachRule(_, _, _, _)
forEachRule(reg, cfg, i, acc) ==
    IF i > Len(cfg) THEN Returned(acc.results)
    ELSE LET ruleId == cfg[i].ruleId
             severity == cfg[i].severity
             ruleFn == ruleRegistry(ruleId)
             violations == callRule(ruleFn, reg)
         IN  IF severity = "off" THEN forEachRule(reg, cfg, i + 1, acc)
             ELSE IF ruleFn = Undefined THEN forEachRule(reg, cfg, i + 1, acc)
             \* violations.forEach is not a function: TypeError
             ELSE IF ~violations.isArray THEN Threw
             ELSE forEachRule(reg, cfg, i + 1,
                    forEachViolation(ruleId, severity, violations.items, 1, acc))

validateDiagram(reg, cfg) ==
    forEachRule(reg, cfg, 1, [seen |-> {}, results |-> << >>])


(***************************************************************************)
(* Diagrams.  An element of the registry is a shape or a connection; a     *)
(* shape's incoming and outgoing lists are the connections that end and    *)
(* start at it.  Ids are unique and never empty (the registry is keyed by  *)
(* id).                                                                    *)
(***************************************************************************)
NoExtension == [present |-> FALSE, values |-> << >>]

\* "global" is an ordinary element id: it is the word the deduplication key
\* uses for a violation without an element.
ElementId(i) == IF i = 2 THEN "global" ELSE "Element_" \o ToString(i)

FlowId(i) == "Flow_" \o ToString(i)

Shape(i, type, ext) ==
    [id |-> ElementId(i), name |-> Undefined, isConnection |-> FALSE, type |-> type,
     attachedToRef |-> IF type = BoundaryEventType THEN "Host" ELSE Undefined,
     conditionExpression |-> FALSE, source |-> Undefined, target |-> Undefined,
     ext |-> ext]

Connection(i, type, conditional, source, target) ==
    [id |-> FlowId(i), name |-> Undefined, isConnection |-> TRUE, type |-> type,
     attachedToRef |-> Undefined, conditionExpression |-> conditional,
     source |-> source, target |-> target, ext |-> NoExtension]

\* The kinds of connection: unconditional and conditional sequence flows,
\* and a connection that is no sequence flow.
UnconditionalFlow == [type |-> SequenceFlowType, conditional |-> FALSE]
ConditionalFlow == [type |-> SequenceFlowType, conditional |-> TRUE]
AssociationFlow == [type |-> AssociationType, conditional |-> FALSE]

\* The k-th way to connect two of n shapes, k in 1..n*n*Len(kinds).
FlowOption(kinds, n, k) ==
    LET q == Len(kinds)
        kind == kinds[((k - 1) % q) + 1]
        ends == (k - 1) \div q
    IN  [type |-> kind.type, conditional |-> kind.conditional,
         source |-> ElementId((ends \div n) + 1),
         target |-> ElementId((ends % n) + 1)]

\* At most max connections between n shapes, in a canonical order: the rules
\* read a shape's connections as a collection, never by position.
FlowLists(kinds, n, max) ==
    LET options == n * n * Len(kinds)
        picks == UNION { [1..m -> 1..options] : m \in 0..max }
        sorted(f) == \A i \in 1..(Len(f) - 1) : f[i] <= f[i + 1]
    IN  { [i \in 1..Len(f) |->
             LET o == FlowOption(kinds, n, f[i])
             IN  Connection(i, o.type, o.conditional, o.source, o.target)] :
          f \in { g \in picks : sorted(g) } }

ShapeLists(types, max) ==
    UNION { { [i \in 1..n |-> Shape(i, t[i], NoExtension)] : t \in [1..n -> types] } :
            n \in 0..max }

\* The diagrams of at most MaxElements elements: shapes of the given types
\* first, then connections of the given kinds between them.
Diagrams(types, kinds) ==
    UNION { { shapes \o flows :
              flows \in FlowLists(kinds, Len(shapes), MaxElements - Len(shapes)) } :
            shapes \in ShapeLists(types, MaxElements) }

(***************************************************************************)
(* Rule configurations: an object whose keys are rule ids, in insertion    *)
(* order, each with a severity.                                            *)
(***************************************************************************)
RuleIds == RegisteredRuleIds \cup {"custom-rule"} \cup InheritedNames

Severities == {"error", "warning", "off"}

Configs ==
    LET entries == [ruleId : RuleIds, severity : Severities]
        lists == UNION { [1..n -> entries] : n \in 0..MaxConfig }
    IN  { c \in lists :
            \A i, j \in 1..Len(c) : c[i].ruleId = c[j].ruleId => i = j }

(***************************************************************************)
(* Validation of a diagram under a configuration.                          *)
(***************************************************************************)
NoResult == [status |-> "none", errors |-> << >>, warnings |-> << >>, all |-> << >>]

NoRuleOut == [rule |-> "none", violations |-> << >>]

\* No updateTasks call was made on the imported diagram yet.
NothingCalled ==
    /\ loaded = registry
    /\ named = {}
    /\ calls = 0

\* No marker is set and no duration was parsed yet.
NothingAnalysed ==
    /\ markers = {}
    /\ durationString = << >>
    /\ totalMinutes = 0
    /\ markersAboveAverage = {}
    /\ analysedTasks = << >>

NoValidationResults == [errors |-> << >>, warnings |-> << >>]

\* A text handed over as XML: the diagram it describes (none when it is no
\* BPMN document), how it is written, its length and how many of its
\* characters are white space around the rest.
XmlText(graph, layout, chars, blanks) ==
    [graph |-> graph, layout |-> layout, chars |-> chars, blanks |-> blanks]

\* null: the host attribute has no value.
NoXml == XmlText(<< >>, "null", 0, 0)

\* A text handed over as JSON: whether JSON.parse accepts it and the value it
\* denotes.
JsonText(kind, value) == [kind |-> kind, value |-> value]

NoJson == JsonText("null", << >>)

NoValidationMarkers == [error |-> {}, warning |-> {}]

\* No handleSave call was made yet.
NoSave ==
    [stage |-> "idle", validation |-> "none", xml |-> NoXml, exports |-> 0, onSave |-> 0,
     published |-> 0]

NoPasses == [started |-> 0, shown |-> 0, graph |-> << >>]

\* The editor's state outside the XML it is mounted with.
NoEditor ==
    /\ taskDataJson = NoJson
    /\ hostWrites = << >>
    /\ validationMarkers = NoValidationMarkers
    /\ isBottleneckMode = FALSE
    /\ save = NoSave
    /\ passes = NoPasses

\* The operations are called on a modeler outside the editor component.
NoWidget ==
    /\ importsInFlight = << >>
    /\ lastImportedXml = Undefined
    /\ isLoading = FALSE
    /\ isSaving = FALSE
    /\ lastAppliedTaskJson = Null
    /\ validationResults = NoValidationResults
    /\ microtasks = << >>
    /\ calledDuringImport = {}
    /\ initialXml = NoXml
    /\ currentXml = NoXml
    /\ lastLoadedXml = NoXml
    /\ NoEditor

ValidationTypes == {StartEventType, EndEventType, UserTaskType}

InitValidation ==
    /\ registry \in Diagrams(ValidationTypes, << UnconditionalFlow >>)
    /\ config = << >>
    /\ result = NoResult
    /\ ruleOut = NoRuleOut
    /\ records = << >>
    /\ transactions = << >>
    /\ extracted = << >>
    /\ phase = "ready"
    /\ NothingCalled
    /\ NothingAnalysed
    /\ NoWidget

\* validateDiagram(modeler, config)
Validate(cfg) ==
    /\ phase = "ready"
    /\ config' = cfg
    /\ result' = validateDiagram(registry, cfg)
    /\ phase' = "validated"
    /\ UNCHANGED <<registry, ruleOut, records, transactions, extracted, historyVars,
                   analysisVars, widgetVars>>

\* One run per behaviour: the configurations still to be tried.
ConfigsToRun == IF phase = "ready" THEN Configs ELSE {}

NextValidation == \E cfg \in ConfigsToRun : Validate(cfg)

SpecValidation == InitValidation /\ [][NextValidation]_vars

(***************************************************************************)
(* The rules applied on their own.                                         *)
(***************************************************************************)
RuleTypes ==
    {StartEventType, EndEventType, IntermediateEventType, BoundaryEventType,
     TaskType, UserTaskType, GatewayType, SubProcessType, CallActivityType,
     DataObjectType}

InitRules ==
    /\ registry \in Diagrams(RuleTypes,
                             << UnconditionalFlow, ConditionalFlow, AssociationFlow >>)
    /\ config = << >>
    /\ result = NoResult
    /\ ruleOut = NoRuleOut
    /\ records = << >>
    /\ transactions = << >>
    /\ extracted = << >>
    /\ phase = "ready"
    /\ NothingCalled
    /\ NothingAnalysed
    /\ NoWidget

\* orphanElementsRule(modeler)
ApplyOrphanElementsRule ==
    /\ phase = "ready"
    /\ ruleOut' = [rule |-> "orphanElementsRule",
                   violations |-> orphanElementsRule(registry)]
    /\ phase' = "applied"
    /\ UNCHANGED <<registry, config, result, records, transactions, extracted, historyVars,
                   analysisVars, widgetVars>>

\* taskMultipleOutgoingRule(modeler)
ApplyTaskMultipleOutgoingRule ==
    /\ phase = "ready"
    /\ ruleOut' = [rule |-> "taskMultipleOutgoingRule",
                   violations |-> taskMultipleOutgoingRule(registry)]
    /\ phase' = "applied"
    /\ UNCHANGED <<registry, config, result, records, transactions, extracted, historyVars,
                   analysisVars, widgetVars>>

NextRules == ApplyOrphanElementsRule \/ ApplyTaskMultipleOutgoingRule

SpecRules == InitRules /\ [][NextRules]_vars

(***************************************************************************)
(* Task metadata.  A metadata block (bo.extensionElements) holds typed     *)
(* records in order; a record of another type has no duration attribute.   *)
(***************************************************************************)
TaskMetrics(duration) == [type |-> "custom:taskMetrics", duration |-> duration]

OtherRecord == [type |-> "camunda:Properties", duration |-> Undefined]

Block(values) == [present |-> TRUE, values |-> values]

\* Values of a task record's duration field as JavaScript sees them: the
\* kind of value and its String(...) text.
Str(text) == [kind |-> "string", text |-> text]
UndefinedValue == [kind |-> "undefined", text |-> "undefined"]
NullValue == [kind |-> "null", text |-> "null"]
Num(text) == [kind |-> "number", text |-> text]
Bool(text) == [kind |-> "boolean", text |-> text]
ObjectValue == [kind |-> "object", text |-> "[object Object]"]
ArrayValue == [kind |-> "object", text |-> ""]

JsTruthy(value) ==
    CASE value.kind = "string" -> value.text # ""
      [] value.kind = "number" -> value.text \notin {"0", "NaN"}
      [] value.kind = "boolean" -> value.text = "true"
      [] value.kind \in {"undefined", "null"} -> FALSE
      [] OTHER -> TRUE

\* Mutant of taskMetricsOf: the first record of the block, whatever its type.
taskMetricsOf_FirstRecord(values) == IF values = << >> THEN 0 ELSE 1

\* utils/taskExtractor.js: extElements.find(v => v.$type === "custom:taskMetrics"),
\* as the index of the record found, 0 for undefined.
taskMetricsOf(values) ==
    LET hits == { k \in DOMAIN values : values[k].type = "custom:taskMetrics" }
    IN  IF hits = {} THEN 0 ELSE CHOOSE k \in hits : \A h \in hits : k <= h

\* utils/taskExtractor.js
extractTasks(reg) ==
    LET tasks == SelectSeq(reg, LAMBDA el : endsWith(el.type, <<"Task">>))
        record(bo) ==
            LET extElements == IF bo.ext.present THEN bo.ext.values ELSE << >>
                found == taskMetricsOf(extElements)
                duration == IF found = 0 THEN Undefined ELSE extElements[found].duration
            IN  [taskId |-> bo.id,
                 name |-> IF Truthy(bo.name) THEN bo.name ELSE "",
                 type |-> bo.type,
                 duration |-> IF Truthy(duration) THEN duration ELSE ""]
    IN  [k \in 1..Len(tasks) |-> record(tasks[k])]

\* Mutant of registryGet: an unknown id falls back to the first element.
registryGet_FirstWhenMissing(reg, id) ==
    LET hits == { i \in DOMAIN reg : reg[i].id = id }
    IN  IF hits = {} THEN (IF reg = << >> THEN 0 ELSE 1) ELSE CHOOSE i \in hits : TRUE

\* elementRegistry.get(id), as the index of the element, 0 for undefined.
registryGet(reg, id) ==
    LET hits == { i \in DOMAIN reg : reg[i].id = id }
    IN  IF hits = {} THEN 0 ELSE CHOOSE i \in hits : TRUE

\* Mutant of findTaskMetrics: the type is read from a property the records do
\* not have, so no record is ever found.
findTaskMetrics_WrongProperty(values) == 0

\* utils/taskUpdater.js: extensionElements.values.find(v => v.$type === "custom:taskMetrics")
findTaskMetrics(values) ==
    LET hits == { k \in DOMAIN values : values[k].type = "custom:taskMetrics" }
    IN  IF hits = {} THEN 0 ELSE CHOOSE k \in hits : \A h \in hits : k <= h

\* Mutant of cleanDuration: the "[object Object]" sentinel is not filtered.
cleanDuration_KeepsSentinel(duration) ==
    IF JsTruthy(duration) THEN duration.text ELSE ""

\* (task.duration && task.duration !== "[object Object]") ? String(task.duration) : ""
cleanDuration(duration) ==
    IF JsTruthy(duration) /\ duration # Str("[object Object]") THEN duration.text ELSE ""

\* Mutant of updateTask: a new taskMetrics record is pushed on every write.
updateTask_AlwaysPushes(state, task) ==
    LET i == registryGet(state.registry, task.taskId)
    IN  IF i = 0 THEN state
        ELSE
          LET bo == state.registry[i]
              extensionElements == IF bo.ext.present THEN bo.ext ELSE Block(<< >>)
              values == Append(extensionElements.values,
                               TaskMetrics(cleanDuration(task.duration)))
          IN  [registry |-> [state.registry EXCEPT ![i].ext = Block(values)],
               transactions |-> Append(state.transactions, bo.id)]

\* Mutant of updateTask: the block is replaced by one holding the taskMetrics
\* record alone.
updateTask_ReplacesBlock(state, task) ==
    LET i == registryGet(state.registry, task.taskId)
    IN  IF i = 0 THEN state
        ELSE
          LET bo == state.registry[i]
              ext == Block(<< TaskMetrics(cleanDuration(task.duration)) >>)
          IN  [registry |-> [state.registry EXCEPT ![i].ext = ext],
               transactions |-> Append(state.transactions, bo.id)]

\* Mutant of updateTask: the duration is written to a record that was found,
\* not to one that was just created.
updateTask_WritesFoundOnly(state, task) ==
    LET i == registryGet(state.registry, task.taskId)
    IN  IF i = 0 THEN state
        ELSE
          LET bo == state.registry[i]
              extensionElements == IF bo.ext.present THEN bo.ext ELSE Block(<< >>)
              found == findTaskMetrics(extensionElements.values)
              values == IF found = 0
                        THEN Append(extensionElements.values, TaskMetrics(""))
                        ELSE [extensionElements.values
                                EXCEPT ![found].duration = cleanDuration(task.duration)]
          IN  [registry |-> [state.registry EXCEPT ![i].ext = Block(values)],
               transactions |-> Append(state.transactions, bo.id)]

\* The body of updatedTasks.forEach(task => { ... }) for one task record.
updateTask(state, task) ==
    LET i == registryGet(state.registry, task.taskId)
    IN  IF i = 0 THEN state
        ELSE
          LET bo == state.registry[i]
              extensionElements == IF bo.ext.present THEN bo.ext ELSE Block(<< >>)
              found == findTaskMetrics(extensionElements.values)
              values == IF found = 0
                        THEN Append(extensionElements.values, TaskMetrics(""))
                        ELSE extensionElements.values
              at == IF found = 0 THEN Len(values) ELSE found
              written == [values EXCEPT ![at].duration = cleanDuration(task.duration)]
          IN  [registry |-> [state.registry EXCEPT ![i].ext = Block(written)],
               transactions |-> Append(state.transactions, bo.id)]

RECURSIVE forEachTask(_, _, _)
forEachTask(state, tasks, k) ==
    IF k > Len(tasks) THEN state
    ELSE forEachTask(updateTask(state, tasks[k]), tasks, k + 1)

\* utils/taskUpdater.js: the diagram after the call and the updateProperties
\* transactions it issued.
updateTasks(reg, updatedTasks) ==
    forEachTask([registry |-> reg, transactions |-> << >>], updatedTasks, 1)

\* The metadata blocks a diagram is loaded with.
TaskBlocks ==
    {NoExtension, Block(<< >>), Block(<< OtherRecord >>), Block(<< TaskMetrics("01:00") >>),
     Block(<< OtherRecord, TaskMetrics("01:00") >>),
     Block(<< TaskMetrics("01:00"), TaskMetrics("03:00") >>)}

EventBlocks == {NoExtension, Block(<< TaskMetrics("01:00") >>)}

TaskShapes(i) ==
    { Shape(i, UserTaskType, b) : b \in TaskBlocks }
        \cup { Shape(i, StartEventType, b) : b \in EventBlocks }

TaskDiagrams ==
    UNION { { d \in [1..n -> UNION { TaskShapes(i) : i \in 1..n }] :
                \A i \in 1..n : d[i] \in TaskShapes(i) } : n \in 0..MaxTasks }

DurationInputs == {Str("02:00"), Str("[object Object]"), UndefinedValue}

MissingId == "Task_missing"

TaskIds == { ElementId(i) : i \in 1..MaxTasks } \cup {MissingId}

RecordLists ==
    UNION { [1..n -> [taskId : TaskIds, duration : DurationInputs]] : n \in 0..MaxRecords }

InitTasks ==
    /\ registry \in TaskDiagrams
    /\ config = << >>
    /\ result = NoResult
    /\ ruleOut = NoRuleOut
    /\ records = << >>
    /\ transactions = << >>
    /\ extracted = << >>
    /\ phase = "ready"
    /\ NothingCalled
    /\ NothingAnalysed
    /\ NoWidget

\* updateTasks(modeler, updatedTasks); a call that repeats the list of the
\* call before it is told apart by the phase.
UpdateTasks(updatedTasks) ==
    /\ records' = updatedTasks
    /\ registry' = updateTasks(registry, updatedTasks).registry
    /\ transactions' = updateTasks(registry, updatedTasks).transactions
    /\ phase' = IF phase = "updated" /\ updatedTasks = records
                THEN "updated twice" ELSE "updated"
    /\ named' = named \cup { updatedTasks[k].taskId : k \in DOMAIN updatedTasks }
    /\ calls' = calls + 1
    /\ UNCHANGED <<config, result, ruleOut, extracted, loaded, analysisVars, widgetVars>>

\* extractTasks(modeler)
ExtractTasks ==
    /\ phase \in {"ready", "updated"}
    /\ extracted' = extractTasks(registry)
    /\ phase' = IF phase = "ready" THEN "extracted" ELSE "extracted after update"
    /\ UNCHANGED <<registry, config, result, ruleOut, records, transactions, historyVars,
                   analysisVars, widgetVars>>

\* One list per behaviour, handed over once or twice in a row.
RecordListsToApply ==
    CASE phase = "ready" -> RecordLists
      [] phase = "updated" /\ calls = 1 -> {records}
      [] OTHER -> {}

NextTasks ==
    \/ \E updatedTasks \in RecordListsToApply : UpdateTasks(updatedTasks)
    \/ ExtractTasks

SpecTasks == InitTasks /\ [][NextTasks]_vars

(***************************************************************************)
(* Sequences of updateTasks calls on one diagram.                          *)
(***************************************************************************)
MaxCalls == 2        \* updateTasks calls in a row

UpdateBlocks ==
    {NoExtension, Block(<< OtherRecord >>), Block(<< OtherRecord, TaskMetrics("01:00") >>),
     Block(<< TaskMetrics("01:00"), TaskMetrics("03:00") >>)}

UpdateShapes(i) ==
    { Shape(i, UserTaskType, b) : b \in UpdateBlocks }
        \cup { Shape(i, StartEventType, NoExtension) }

UpdateDiagrams ==
    UNION { { d \in [1..n -> UNION { UpdateShapes(i) : i \in 1..n }] :
                \A i \in 1..n : d[i] \in UpdateShapes(i) } : n \in 0..MaxTasks }

CallLists ==
    UNION { [1..n -> [taskId : TaskIds, duration : {Str("02:00")}]] : n \in 0..MaxRecords }

InitUpdates ==
    /\ registry \in UpdateDiagrams
    /\ config = << >>
    /\ result = NoResult
    /\ ruleOut = NoRuleOut
    /\ records = << >>
    /\ transactions = << >>
    /\ extracted = << >>
    /\ phase = "ready"
    /\ NothingCalled
    /\ NothingAnalysed
    /\ NoWidget

CallListsToApply == IF calls < MaxCalls THEN CallLists ELSE {}

NextUpdates == \E updatedTasks \in CallListsToApply : UpdateTasks(updatedTasks)

SpecUpdates == InitUpdates /\ [][NextUpdates]_vars

(***************************************************************************)
(* One record of JSON.parse(taskDataJson) written to a diagram: the        *)
(* duration is any JSON value.                                             *)
(***************************************************************************)
JsonDurations ==
    {Str(""), Str(" "), Str("0"), Str("02:00"), Str("[object Object]"), UndefinedValue,
     NullValue, Num("0"), Num("90"), Bool("false"), Bool("true"), ObjectValue, ArrayValue}

JsonLists == [1..1 -> [taskId : TaskIds, duration : JsonDurations]]

JsonListsToApply == IF phase = "ready" THEN JsonLists ELSE {}

NextSanitise == \E updatedTasks \in JsonListsToApply : UpdateTasks(updatedTasks)

SpecSanitise == InitTasks /\ [][NextSanitise]_vars

(***************************************************************************)
(* utils/bottleneckAnalyzer.js: durations.  A string is the sequence of    *)
(* its characters, so that trim, split and parseInt are computed.          *)
(***************************************************************************)
MaxChars == 5        \* characters of a duration string handed to parseDuration

Characters == {"0", "1", "3", ":", " ", "a", "-"}

WhiteSpace == {" "}

Digits == {"0", "1", "2", "3", "4", "5", "6", "7", "8", "9"}

DigitValue(ch) ==
    CASE ch = "0" -> 0 [] ch = "1" -> 1 [] ch = "2" -> 2 [] ch = "3" -> 3 [] ch = "4" -> 4
      [] ch = "5" -> 5 [] ch = "6" -> 6 [] ch = "7" -> 7 [] ch = "8" -> 8 [] ch = "9" -> 9

RECURSIVE trimStart(_)
trimStart(str) ==
    IF str # << >> /\ Head(str) \in WhiteSpace THEN trimStart(Tail(str)) ELSE str

RECURSIVE trimEnd(_)
trimEnd(str) ==
    IF str # << >> /\ str[Len(str)] \in WhiteSpace
    THEN trimEnd(SubSeq(str, 1, Len(str) - 1)) ELSE str

\* String.prototype.trim
trim(str) == trimEnd(trimStart(str))

\* String.prototype.split(separator): the parts, reading left to right; parts
\* holds the finished parts and part the one being read.
RECURSIVE splitFrom(_, _, _, _)
splitFrom(str, separator, parts, part) ==
    IF str = << >> THEN Append(parts, part)
    ELSE IF Head(str) = separator
         THEN splitFrom(Tail(str), separator, Append(parts, part), << >>)
         ELSE splitFrom(Tail(str), separator, parts, Append(part, Head(str)))

split(str, separator) == splitFrom(str, separator, << >>, << >>)

NaN == [nan |-> TRUE, value |-> 0]

Number(n) == [nan |-> FALSE, value |-> n]

\* The digits a string starts with, read as a decimal number after acc.
RECURSIVE parseDigits(_, _)
parseDigits(str, acc) ==
    IF str # << >> /\ Head(str) \in Digits
    THEN parseDigits(Tail(str), 10 * acc + DigitValue(Head(str)))
    ELSE acc

\* parseInt(string, 10): leading white space is skipped, a sign is read, then
\* the digits up to the first other character; NaN without a digit.
parseInt(string) ==
    LET s == trimStart(string)
        signed == s # << >> /\ Head(s) \in {"-", "+"}
        sign == IF s # << >> /\ Head(s) = "-" THEN 0 - 1 ELSE 1
        rest == IF signed THEN Tail(s) ELSE s
    IN  IF rest = << >> \/ Head(rest) \notin Digits THEN NaN
        ELSE Number(sign * parseDigits(rest, 0))

\* value || 0 for a number: NaN and 0 are falsy.
OrZero(number) == IF number.nan THEN 0 ELSE number.value

\* Mutant of parseDuration: strings of more than two parts are accepted.
parseDuration_AcceptsMoreParts(str) ==
    IF str = << >> \/ trim(str) = << >> THEN 0
    ELSE LET parts == split(str, ":")
         IN  IF Len(parts) < 2 THEN 0
             ELSE LET hours == OrZero(parseInt(parts[1]))
                      minutes == OrZero(parseInt(parts[2]))
                  IN  hours * 60 + minutes

\* parseDuration(durationString)
parseDuration(str) ==
    IF str = << >> \/ trim(str) = << >> THEN 0
    ELSE LET parts == split(str, ":")
         IN  IF Len(parts) # 2 THEN 0
             ELSE LET hours == OrZero(parseInt(parts[1]))
                      minutes == OrZero(parseInt(parts[2]))
                  IN  hours * 60 + minutes

DurationStrings == UNION { [1..n -> Characters] : n \in 0..MaxChars }

\* parseDuration(durationString)
ParseDuration(str) ==
    /\ phase = "ready"
    /\ durationString' = str
    /\ totalMinutes' = parseDuration(str)
    /\ phase' = "parsed"
    /\ UNCHANGED <<registry, config, result, ruleOut, records, transactions, extracted,
                   historyVars, markers, variantVars, widgetVars>>

InitParse ==
    /\ registry = << >>
    /\ config = << >>
    /\ result = NoResult
    /\ ruleOut = NoRuleOut
    /\ records = << >>
    /\ transactions = << >>
    /\ extracted = << >>
    /\ phase = "ready"
    /\ NothingCalled
    /\ NothingAnalysed
    /\ NoWidget

StringsToParse == IF phase = "ready" THEN DurationStrings ELSE {}

NextParse == \E str \in StringsToParse : ParseDuration(str)

SpecParse == InitParse /\ [][NextParse]_vars

(***************************************************************************)
(* utils/bottleneckAnalyzer.js: markers.                                   *)
(***************************************************************************)
MaxSteps == 3        \* updateTasks and bottleneck calls in a row

\* The characters of the duration texts the diagrams of this part hold.
Chars(text) ==
    CASE text = "" -> << >>
      [] text = "00:00" -> << "0", "0", ":", "0", "0" >>
      [] text = "01:00" -> << "0", "1", ":", "0", "0" >>
      [] text = "02:00" -> << "0", "2", ":", "0", "0" >>
      [] text = "03:00" -> << "0", "3", ":", "0", "0" >>

\* The ids of the elements whose marker the clearing loop removes.
TaskElementIds(reg) ==
    { reg[i].id : i \in { j \in DOMAIN reg : endsWith(reg[j].type, <<"Task">>) } }

\* tasks.map(task => ({...task, totalMinutes: parseDuration(task.duration)}))
\*      .filter(task => task.totalMinutes > 0)
tasksWithDuration(tasks) ==
    LET mapped == [k \in DOMAIN tasks |->
                      [taskId |-> tasks[k].taskId,
                       totalMinutes |-> parseDuration(Chars(tasks[k].duration))]]
    IN  SelectSeq(mapped, LAMBDA task : task.totalMinutes > 0)

NoTask == [taskId |-> Null, totalMinutes |-> 0]

\* Mutant of findBottleneck: a later task of the same duration replaces the
\* one found before it.
RECURSIVE findBottleneck_LastOfTies(_, _, _, _)
findBottleneck_LastOfTies(tasks, k, maxDuration, bottleneckTask) ==
    IF k > Len(tasks) THEN bottleneckTask
    ELSE IF tasks[k].totalMinutes >= maxDuration
         THEN findBottleneck_LastOfTies(tasks, k + 1, tasks[k].totalMinutes, tasks[k])
         ELSE findBottleneck_LastOfTies(tasks, k + 1, maxDuration, bottleneckTask)

\* for (const task of tasksWithDuration) { if (task.totalMinutes > maxDuration) ... }
RECURSIVE findBottleneck(_, _, _, _)
findBottleneck(tasks, k, maxDuration, bottleneckTask) ==
    IF k > Len(tasks) THEN bottleneckTask
    ELSE IF tasks[k].totalMinutes > maxDuration
         THEN findBottleneck(tasks, k + 1, tasks[k].totalMinutes, tasks[k])
         ELSE findBottleneck(tasks, k + 1, maxDuration, bottleneckTask)

\* applyBottleneckColors(modeler, tasks): the marked elements after the call.
applyBottleneckColors(reg, marked, tasks) ==
    LET cleared == marked \ TaskElementIds(reg)
        withDuration == tasksWithDuration(tasks)
    IN  IF Len(withDuration) = 0 THEN cleared
        ELSE LET bottleneckTask == findBottleneck(withDuration, 1, 0, NoTask)
                 element == IF bottleneckTask = NoTask THEN 0
                            ELSE registryGet(reg, bottleneckTask.taskId)
             IN  IF element = 0 THEN cleared ELSE cleared \cup {reg[element].id}

\* Mutant of clearBottleneckColors: only elements of type bpmn:Task are cleared.
clearBottleneckColors_PlainTasksOnly(reg, marked) ==
    marked \ { reg[i].id : i \in { j \in DOMAIN reg : reg[j].type = TaskType } }

\* clearBottleneckColors(modeler): the marked elements after the call.
clearBottleneckColors(reg, marked) == marked \ TaskElementIds(reg)

BottleneckBlocks ==
    {NoExtension, Block(<< TaskMetrics("00:00") >>), Block(<< TaskMetrics("01:00") >>),
     Block(<< TaskMetrics("02:00") >>)}

BottleneckShapes(i) ==
    { Shape(i, UserTaskType, b) : b \in BottleneckBlocks }
        \cup { Shape(i, StartEventType, NoExtension) }

BottleneckDiagrams ==
    UNION { { d \in [1..n -> UNION { BottleneckShapes(i) : i \in 1..n }] :
                \A i \in 1..n : d[i] \in BottleneckShapes(i) } : n \in 0..MaxTasks }

\* Task lists that were not extracted from the diagram: one record, naming
\* any element or none.
OtherTaskLists ==
    { << [taskId |-> id, name |-> "", type |-> UserTaskType, duration |-> "03:00"] >> :
        id \in TaskIds }

\* Record lists that raise the duration of one element.
DurationUpdates == [1..1 -> [taskId : TaskIds, duration : {Str("03:00")}]]

InitBottleneck ==
    /\ registry \in BottleneckDiagrams
    /\ config = << >>
    /\ result = NoResult
    /\ ruleOut = NoRuleOut
    /\ records = << >>
    /\ transactions = << >>
    /\ extracted = << >>
    /\ phase = "ready"
    /\ NothingCalled
    /\ NothingAnalysed
    /\ NoWidget

\* applyBottleneckColors(modeler, tasks)
ApplyBottleneckColors(tasks) ==
    /\ calls < MaxSteps
    /\ markers' = applyBottleneckColors(registry, markers, tasks)
    /\ phase' = IF tasks = extractTasks(registry)
                THEN "marked" ELSE "marked from another list"
    /\ calls' = calls + 1
    /\ UNCHANGED <<registry, config, result, ruleOut, records, transactions, extracted,
                   loaded, named, durationString, totalMinutes, variantVars,
                   widgetVars>>

\* clearBottleneckColors(modeler)
ClearBottleneckColors ==
    /\ calls < MaxSteps
    /\ markers' = clearBottleneckColors(registry, markers)
    /\ phase' = "cleared"
    /\ calls' = calls + 1
    /\ UNCHANGED <<registry, config, result, ruleOut, records, transactions, extracted,
                   loaded, named, durationString, totalMinutes, variantVars,
                   widgetVars>>

TaskListsToApply ==
    IF calls < MaxSteps THEN {extractTasks(registry)} \cup OtherTaskLists ELSE {}

DurationUpdatesToApply == IF calls < MaxSteps THEN DurationUpdates ELSE {}

NextBottleneck ==
    \/ \E tasks \in TaskListsToApply : ApplyBottleneckColors(tasks)
    \/ ClearBottleneckColors
    \/ \E updatedTasks \in DurationUpdatesToApply : UpdateTasks(updatedTasks)

SpecBottleneck == InitBottleneck /\ [][NextBottleneck]_vars

(***************************************************************************)
(* The two variants of applyBottleneckColors side by side: the one of      *)
(* utils/bottleneckAnalyzer.js, which the editor imports, and the one      *)
(* exported by utils/customModdle.js.                                      *)
(***************************************************************************)
\* tasksWithDuration.reduce((sum, task) => sum + task.totalMinutes, 0)
RECURSIVE totalDuration(_, _)
totalDuration(tasks, k) ==
    IF k > Len(tasks) THEN 0 ELSE tasks[k].totalMinutes + totalDuration(tasks, k + 1)

\* Mutant of aboveAverage: a task of the average duration counts too.
aboveAverage_OrEqual(task, total, count) == task.totalMinutes * count >= total

\* task.totalMinutes > avgDuration, with avgDuration = totalDuration / length
aboveAverage(task, total, count) == task.totalMinutes * count > total

\* customModdle.js: applyBottleneckColors(modeler, tasks), the marked elements
\* after the call.
applyBottleneckColorsAboveAverage(reg, marked, tasks) ==
    LET cleared == marked \ TaskElementIds(reg)
        withDuration == tasksWithDuration(tasks)
        total == totalDuration(withDuration, 1)
        found == { k \in DOMAIN withDuration :
                     /\ aboveAverage(withDuration[k], total, Len(withDuration))
                     /\ registryGet(reg, withDuration[k].taskId) # 0 }
    IN  IF Len(withDuration) = 0 THEN cleared
        ELSE cleared \cup { reg[registryGet(reg, withDuration[k].taskId)].id : k \in found }

\* The task lists handed to both variants: the tasks extracted from the
\* diagram, a record that names any element or none, and both together.
VariantTaskLists(reg) ==
    {extractTasks(reg)} \cup OtherTaskLists
        \cup { extractTasks(reg) \o other : other \in OtherTaskLists }

InitVariants ==
    /\ registry \in BottleneckDiagrams
    /\ config = << >>
    /\ result = NoResult
    /\ ruleOut = NoRuleOut
    /\ records = << >>
    /\ transactions = << >>
    /\ extracted = << >>
    /\ phase = "ready"
    /\ NothingCalled
    /\ NothingAnalysed
    /\ NoWidget

\* applyBottleneckColors(modeler, tasks) of either file, on the same diagram
\* and the same task list.
ApplyBothVariants(tasks) ==
    /\ phase = "ready"
    /\ analysedTasks' = tasks
    /\ markers' = applyBottleneckColors(registry, markers, tasks)
    /\ markersAboveAverage' =
          applyBottleneckColorsAboveAverage(registry, markersAboveAverage, tasks)
    /\ phase' = "compared"
    /\ UNCHANGED <<registry, config, result, ruleOut, records, transactions, extracted,
                   historyVars, durationString, totalMinutes, widgetVars>>

TaskListsToCompare == IF phase = "ready" THEN VariantTaskLists(registry) ELSE {}

NextVariants == \E tasks \in TaskListsToCompare : ApplyBothVariants(tasks)

SpecVariants == InitVariants /\ [][NextVariants]_vars

(***************************************************************************)
(* The editor: Bpmnwidget, BpmnEditor and BpmnModelerComponent.  Handlers  *)
(* run one at a time; an async handler runs up to its first await and      *)
(* leaves its continuation in the microtask queue; an importXML, saveXML   *)
(* or saveSVG promise settles in a later turn; a value set on a host       *)
(* attribute reaches the editor's props with the host's next render.       *)
(***************************************************************************)
MaxImports == 2      \* importXML calls in flight at once
MaxEvents == 2       \* clicks, modeling commands, files and host changes in a row

\* BpmnEditor: initialXml.trim().length > 100
MinXmlLength == 100

\* validations/validationConfig.js
validationConfig ==
    << [ruleId |-> "start-event-required", severity |-> "error"],
       [ruleId |-> "end-event-required", severity |-> "error"],
       [ruleId |-> "no-orphan-elements", severity |-> "warning"],
       [ruleId |-> "task-multiple-outgoing", severity |-> "warning"] >>

\* What validationConfig.js may hold: the configuration above, one that makes
\* an orphan element an error, and one with a key that the rule registry
\* resolves to an inherited function, so that every run throws.
WidgetConfigs ==
    { validationConfig,
      [validationConfig EXCEPT ![3].severity = "error"],
      Append(validationConfig, [ruleId |-> "toString", severity |-> "error"]) }

\* saveXML({format: true}): a diagram as the modeler writes it.
saveXML(graph) == XmlText(graph, "formatted", 200 + 100 * Len(graph), 0)

\* initialXml.trim().length
trimmedLength(xml) == xml.chars - xml.blanks

\* The diagrams the host and the file dialog hand over.
WidgetDiagrams ==
    << << Shape(1, UserTaskType, Block(<< TaskMetrics("01:00") >>)),
          Shape(2, UserTaskType, Block(<< OtherRecord >>)),
          Shape(3, StartEventType, NoExtension),
          Shape(4, EndEventType, NoExtension) >>,
       << Shape(1, StartEventType, NoExtension), Shape(2, UserTaskType, NoExtension) >> >>

\* The texts the host and the file dialog hand over: a diagram as an earlier
\* save wrote it, a diagram as another tool wrote it, and a text that is no
\* XML, of 20 characters between blank lines.
WidgetXmls ==
    { saveXML(WidgetDiagrams[1]),
      XmlText(WidgetDiagrams[2], "compact", 310, 0),
      XmlText(<< >>, "text", 120, 100) }

\* JSON.stringify(tasks) of extracted task records
JSONstringify(tasks) ==
    JsonText("array",
             [k \in DOMAIN tasks |->
                 [taskId |-> tasks[k].taskId, duration |-> Str(tasks[k].duration)]])

\* The parsed values of the taskDataJson texts the host hands over.
WidgetTaskLists ==
    { << [taskId |-> ElementId(1), duration |-> Str("02:00")] >>,
      << [taskId |-> ElementId(1), duration |-> Str("02:00")],
         [taskId |-> ElementId(2), duration |-> Str("02:00")] >>,
      << [taskId |-> MissingId, duration |-> Str("02:00")] >> }

\* The values the host sets on its attributes by itself.
HostValues ==
    { [attribute |-> "bpmnXML", xml |-> x, json |-> NoJson] : x \in WidgetXmls }
        \cup { [attribute |-> "taskDataJson", xml |-> NoXml, json |-> JsonText("array", l)] :
                 l \in WidgetTaskLists }
        \cup { [attribute |-> "taskDataJson", xml |-> NoXml,
                json |-> JsonText("invalid", << >>)] }

\* The ids of the elements on the canvas.
ElementIds(reg) == { reg[i].id : i \in DOMAIN reg }

\* The diagrams one modeling command of the user leads to: a task is appended
\* or the last element is removed.
EditedDiagrams(reg) ==
    (IF Len(reg) < MaxElements + 1
     THEN { Append(reg, Shape(Len(reg) + 1, UserTaskType, NoExtension)) } ELSE {})
        \cup (IF Len(reg) > 0 THEN { SubSeq(reg, 1, Len(reg) - 1) } ELSE {})

\* runValidation(modeler) inside an async handler: the pass runs at once on the
\* diagram as it is; its results wait for the await to end, as pass number
\* started + 1.  A run that throws leaves nothing to wait for.
Continuation(kind, reg, started) ==
    LET run == validateDiagram(reg, config)
    IN  IF run.status = "threw" THEN << >>
        ELSE << [kind |-> kind, graph |-> reg, pass |-> started + 1, result |-> run] >>

\* The operations of a handler, noted when an import is in flight as it runs.
Invoked(operations, inFlight) ==
    IF inFlight # << >> THEN calledDuringImport \cup operations ELSE calledDuringImport

\* updateTasks with the commandStack.changed listener attached: every
\* updateProperties transaction notifies runAutoValidation, which validates the
\* diagram as it is then and awaits.
RECURSIVE forEachTaskNotifying(_, _, _)
forEachTaskNotifying(state, tasks, k) ==
    IF k > Len(tasks) THEN state
    ELSE LET after == updateTask([registry |-> state.registry,
                                  transactions |-> state.transactions], tasks[k])
             changed == Len(after.transactions) > Len(state.transactions)
             started == passes.started + Len(state.passes)
         IN  forEachTaskNotifying(
                 [registry |-> after.registry,
                  transactions |-> after.transactions,
                  passes |-> IF changed
                             THEN state.passes \o Continuation("changed", after.registry, started)
                             ELSE state.passes],
                 tasks, k + 1)

\* canvas.addMarker(elementId, marker) on the set of elements that carry the
\* marker: no error and no marker when the diagram has no such element.
addMarker(reg, marked, elementId) ==
    IF elementId \in ElementIds(reg) THEN marked \cup {elementId} ELSE marked

\* canvas.removeMarker(elementId, marker)
removeMarker(reg, marked, elementId) == marked \ {elementId}

\* entries.forEach(e => { if (e.elementId) canvas.addMarker(e.elementId, marker) })
RECURSIVE forEachEntry(_, _, _, _)
forEachEntry(reg, marked, entries, k) ==
    IF k > Len(entries) THEN marked
    ELSE forEachEntry(reg,
                      IF Truthy(entries[k].elementId)
                      THEN addMarker(reg, marked, entries[k].elementId)
                      ELSE marked,
                      entries, k + 1)

\* elementRegistry.getAll().forEach(e => canvas.removeMarker(e.id, marker))
RECURSIVE forEachElement(_, _, _)
forEachElement(reg, marked, k) ==
    IF k > Len(reg) THEN marked
    ELSE forEachElement(reg, removeMarker(reg, marked, reg[k].id), k + 1)

\* Mutant of applyValidationMarkers: the markers of the run before are not
\* removed.
applyValidationMarkers_KeepsOld(reg, marked, errors, warnings) ==
    [error |-> forEachEntry(reg, marked.error, errors, 1),
     warning |-> forEachEntry(reg, marked.warning, warnings, 1)]

\* applyValidationMarkers(errors, warnings): the marked elements after the
\* call.  Both markers are removed from every element, then set on the
\* elements the results name.
applyValidationMarkers(reg, marked, errors, warnings) ==
    [error |-> forEachEntry(reg, forEachElement(reg, marked.error, 1), errors, 1),
     warning |-> forEachEntry(reg, forEachElement(reg, marked.warning, 1), warnings, 1)]

\* BpmnModelerComponent: the effect on its initialXml prop, the editor's
\* currentXml; the importXML call is started unless the text is the one of the
\* import before.
XmlChanged(xml) ==
    IF xml = NoXml \/ xml = lastImportedXml
    THEN [lastImportedXml |-> lastImportedXml, importsInFlight |-> importsInFlight]
    ELSE [lastImportedXml |-> xml,
          importsInFlight |-> Append(importsInFlight, [xml |-> xml, initial |-> FALSE])]

\* Mutant of InitialXmlChanged: the length is taken without trim().
InitialXmlChanged_Untrimmed(xml) ==
    IF xml # NoXml /\ xml # lastLoadedXml /\ xml.chars > MinXmlLength
    THEN [currentXml |-> xml, lastLoadedXml |-> xml]
    ELSE [currentXml |-> currentXml, lastLoadedXml |-> lastLoadedXml]

\* BpmnEditor: the effect on its initialXml prop.
InitialXmlChanged(xml) ==
    IF xml # NoXml /\ xml # lastLoadedXml /\ trimmedLength(xml) > MinXmlLength
    THEN [currentXml |-> xml, lastLoadedXml |-> xml]
    ELSE [currentXml |-> currentXml, lastLoadedXml |-> lastLoadedXml]

\* Mutant of alreadyApplied: every value is taken as new.
alreadyApplied_Never(json, lastApplied) == FALSE

\* taskDataJson === lastAppliedTaskJsonRef.current
alreadyApplied(json, lastApplied) == json = lastApplied

\* BpmnEditor: the effect on its taskDataJson prop.
TaskDataChanged(json) ==
    LET unchanged == [registry |-> registry, transactions |-> transactions,
                      passes |-> << >>, records |-> records, named |-> named,
                      lastAppliedTaskJson |-> lastAppliedTaskJson, called |-> {}]
    IN  IF \/ isLoading \/ json = NoJson \/ alreadyApplied(json, lastAppliedTaskJson)
           \/ json.kind # "array"
        THEN unchanged
        ELSE LET tasks == json.value
                 done == forEachTaskNotifying(
                             [registry |-> registry, transactions |-> << >>, passes |-> << >>],
                             tasks, 1)
             IN  [registry |-> done.registry, transactions |-> done.transactions,
                  passes |-> done.passes, records |-> tasks,
                  named |-> named \cup { tasks[k].taskId : k \in DOMAIN tasks },
                  lastAppliedTaskJson |-> json,
                  called |-> {"updateTasks"} \cup
                                (IF done.passes = << >> THEN {} ELSE {"validateDiagram"})]

InitWidget ==
    /\ registry = << >>
    /\ config \in WidgetConfigs
    /\ result = NoResult
    /\ ruleOut = NoRuleOut
    /\ records = << >>
    /\ transactions = << >>
    /\ extracted = << >>
    /\ phase = "mounted"
    /\ NothingCalled
    /\ NothingAnalysed
    /\ initialXml \in { x \in WidgetXmls : x.layout \in {"formatted", "compact"} }
    /\ currentXml = initialXml
    /\ lastLoadedXml = initialXml
    /\ lastImportedXml = initialXml
    /\ importsInFlight = << [xml |-> initialXml, initial |-> TRUE] >>
    /\ isLoading = TRUE
    /\ isSaving = FALSE
    /\ lastAppliedTaskJson = NoJson
    /\ validationResults = NoValidationResults
    /\ microtasks = << >>
    /\ calledDuringImport = {}
    /\ taskDataJson = NoJson
    /\ hostWrites = << >>
    /\ validationMarkers = NoValidationMarkers
    /\ isBottleneckMode = FALSE
    /\ save = NoSave
    /\ passes = NoPasses

\* The host sets an attribute by itself: another diagram, other task data.
HostSetsValue(write) ==
    /\ microtasks = << >>
    /\ calls < MaxEvents
    /\ hostWrites' = Append(hostWrites, write)
    /\ calls' = calls + 1
    /\ phase' = "host set a value"
    /\ UNCHANGED <<registry, config, result, ruleOut, records, transactions, extracted,
                   loaded, named, analysisVars, importsInFlight, lastImportedXml, isLoading,
                   isSaving, lastAppliedTaskJson, validationResults, microtasks,
                   calledDuringImport, initialXml, currentXml, lastLoadedXml, taskDataJson,
                   validationMarkers, isBottleneckMode, save, passes>>

\* Bpmnwidget renders with the oldest value set on an attribute: BpmnEditor's
\* effect on the prop that changed runs, and after it BpmnModelerComponent's.
HostRendered ==
    /\ microtasks = << >>
    /\ hostWrites # << >>
    /\ Len(importsInFlight) < MaxImports
    /\ LET write == Head(hostWrites)
           xmlChanged == write.attribute = "bpmnXML" /\ write.xml # initialXml
           jsonChanged == write.attribute = "taskDataJson" /\ write.json # taskDataJson
           editor == IF xmlChanged THEN InitialXmlChanged(write.xml)
                     ELSE [currentXml |-> currentXml, lastLoadedXml |-> lastLoadedXml]
           modeler == XmlChanged(editor.currentXml)
           tasks == TaskDataChanged(IF jsonChanged THEN write.json ELSE NoJson)
       IN  /\ initialXml' = IF xmlChanged THEN write.xml ELSE initialXml
           /\ currentXml' = editor.currentXml
           /\ lastLoadedXml' = editor.lastLoadedXml
           /\ lastImportedXml' = modeler.lastImportedXml
           /\ importsInFlight' = modeler.importsInFlight
           /\ taskDataJson' = IF jsonChanged THEN write.json ELSE taskDataJson
           /\ registry' = tasks.registry
           /\ transactions' = tasks.transactions
           /\ records' = tasks.records
           /\ named' = tasks.named
           /\ lastAppliedTaskJson' = tasks.lastAppliedTaskJson
           /\ microtasks' = tasks.passes
           /\ passes' = [passes EXCEPT !.started = @ + Len(tasks.passes)]
           /\ calledDuringImport' = Invoked(tasks.called, importsInFlight)
           /\ phase' = IF write.attribute = "bpmnXML" THEN "rendered xml" ELSE "rendered tasks"
    /\ hostWrites' = Tail(hostWrites)
    /\ UNCHANGED <<config, result, ruleOut, extracted, loaded, calls, analysisVars, isLoading,
                   isSaving, validationResults, validationMarkers, isBottleneckMode, save>>

\* BpmnEditor: handleOpenFile, when the FileReader has read the file.
HandleOpenFile(xml) ==
    /\ microtasks = << >>
    /\ calls < MaxEvents
    /\ Len(importsInFlight) < MaxImports
    /\ currentXml' = xml
    /\ lastLoadedXml' = xml
    /\ lastImportedXml' = XmlChanged(xml).lastImportedXml
    /\ importsInFlight' = XmlChanged(xml).importsInFlight
    /\ calls' = calls + 1
    /\ phase' = "file opened"
    /\ UNCHANGED <<registry, config, result, ruleOut, records, transactions, extracted,
                   loaded, named, analysisVars, isLoading, isSaving, lastAppliedTaskJson,
                   validationResults, microtasks, calledDuringImport, initialXml,
                   taskDataJson, hostWrites, validationMarkers, isBottleneckMode, save, passes>>

\* The oldest importXML promise settles.  Rejected (the text is no BPMN
\* document): the diagram stays and onError ends the loading state.
\* Resolved: the canvas is drawn anew, and the .then callback of the mount
\* effect (onModelerReady, handleModelerReady up to its await) or of the
\* effect on initialXml (up to its await) runs; a validation that throws is
\* caught by handleModelerReady, and handed to onError by the effect.
ImportResolved ==
    /\ importsInFlight # << >>
    /\ LET import == Head(importsInFlight)
           rejected == import.xml.layout \notin {"formatted", "compact"}
           pass == Continuation(IF import.initial THEN "ready" ELSE "imported",
                                import.xml.graph, passes.started)
       IN  /\ registry' = IF rejected THEN registry ELSE import.xml.graph
           /\ loaded' = IF rejected THEN loaded ELSE import.xml.graph
           /\ markers' = IF rejected THEN markers ELSE {}
           /\ validationMarkers' = IF rejected THEN validationMarkers ELSE NoValidationMarkers
           /\ isLoading' = FALSE
           /\ microtasks' = IF rejected THEN microtasks ELSE microtasks \o pass
           /\ passes' = IF rejected THEN passes
                        ELSE [passes EXCEPT !.started = @ + Len(pass)]
           /\ calledDuringImport' =
                 IF rejected THEN calledDuringImport
                 ELSE Invoked({"validateDiagram"}, Tail(importsInFlight))
           /\ phase' = IF rejected THEN "import failed" ELSE "imported"
    /\ importsInFlight' = Tail(importsInFlight)
    /\ UNCHANGED <<config, result, ruleOut, records, transactions, extracted, named, calls,
                   durationString, totalMinutes, variantVars, lastImportedXml,
                   isSaving, lastAppliedTaskJson, validationResults, initialXml, currentXml,
                   lastLoadedXml, taskDataJson, hostWrites, isBottleneckMode, save>>

\* A modeling command of the user: commandStack.changed, runAutoValidation up
\* to its await.
DiagramChanged(edited) ==
    /\ microtasks = << >>
    /\ calls < MaxEvents
    /\ ~isLoading
    /\ registry' = edited
    /\ markers' = markers \cap ElementIds(edited)
    /\ validationMarkers' = [error |-> validationMarkers.error \cap ElementIds(edited),
                             warning |-> validationMarkers.warning \cap ElementIds(edited)]
    /\ microtasks' = Continuation("changed", edited, passes.started)
    /\ passes' = [passes EXCEPT !.started = @ + Len(microtasks')]
    /\ calledDuringImport' = Invoked({"validateDiagram"}, importsInFlight)
    /\ calls' = calls + 1
    /\ phase' = "edited"
    /\ UNCHANGED <<config, result, ruleOut, records, transactions, extracted, loaded, named,
                   durationString, totalMinutes, variantVars, importsInFlight,
                   lastImportedXml, isLoading, isSaving, lastAppliedTaskJson,
                   validationResults, initialXml, currentXml, lastLoadedXml, taskDataJson,
                   hostWrites, isBottleneckMode, save>>

\* BpmnEditor: handleSave up to its first await.  A validation that throws is
\* caught at once, and the finally block runs in the same turn.
HandleSave ==
    /\ microtasks = << >>
    /\ calls < MaxEvents
    /\ ~isLoading
    /\ ~isSaving
    /\ microtasks' = Continuation("save", registry, passes.started)
    /\ passes' = [passes EXCEPT !.started = @ + Len(microtasks')]
    /\ isSaving' = (microtasks' # << >>)
    /\ save' = [NoSave EXCEPT !.stage = IF microtasks' # << >> THEN "validating" ELSE "done",
                              !.validation = IF microtasks' # << >> THEN "none" ELSE "threw"]
    /\ calledDuringImport' = Invoked({"validateDiagram"}, importsInFlight)
    /\ calls' = calls + 1
    /\ phase' = "saving"
    /\ UNCHANGED <<registry, config, result, ruleOut, records, transactions, extracted,
                   loaded, named, analysisVars, importsInFlight, lastImportedXml, isLoading,
                   lastAppliedTaskJson, validationResults, initialXml, currentXml,
                   lastLoadedXml, taskDataJson, hostWrites, validationMarkers,
                   isBottleneckMode>>

\* Mutant of finallyBlock: a handleSave that ends leaves isSaving as it is.
finallyBlock_Missing(ends, saving) == saving

\* handleSave: finally { setIsSaving(false); } when the handler ends.
finallyBlock(ends, saving) == IF ends THEN FALSE ELSE saving

\* Mutant of blocksSave: errors do not end the save.
blocksSave_Never(errors) == FALSE

\* handleSave: if (errors.length > 0) { setError(...); return; }
blocksSave(errors) == Len(errors) > 0

\* Mutant of nextMicrotask: the newest continuation runs first.
nextMicrotask_Newest(queue) == Len(queue)

\* The continuation that runs next: the oldest of the queue.
nextMicrotask(queue) == 1

\* A continuation runs: the results reach the validation panel and the canvas
\* (setValidationResults and applyValidationMarkers, directly or through
\* onValidate); handleModelerReady goes on to extractTasks and
\* onTasksExtracted, and so does a handleSave without errors, up to its await
\* of exportXML; a handleSave with errors ends.
RunMicrotask ==
    /\ microtasks # << >>
    /\ LET at == nextMicrotask(microtasks)
           task == microtasks[at]
           clean == ~blocksSave(task.result.errors)
           extracts == task.kind = "ready" \/ (task.kind = "save" /\ clean)
           tasks == extractTasks(registry)
       IN  /\ validationResults' =
                 [errors |-> task.result.errors, warnings |-> task.result.warnings]
           /\ validationMarkers' =
                 applyValidationMarkers(registry, validationMarkers,
                                        task.result.errors, task.result.warnings)
           /\ passes' = [passes EXCEPT !.shown = task.pass, !.graph = task.graph]
           /\ extracted' = IF extracts THEN tasks ELSE extracted
           /\ hostWrites' =
                 IF extracts
                 THEN Append(hostWrites, [attribute |-> "taskDataJson", xml |-> NoXml,
                                          json |-> JSONstringify(tasks)])
                 ELSE hostWrites
           /\ calledDuringImport' =
                 Invoked(IF extracts THEN {"extractTasks"} ELSE {}, importsInFlight)
           /\ isSaving' = finallyBlock(task.kind = "save" /\ ~clean, isSaving)
           /\ save' = IF task.kind # "save" THEN save
                      ELSE IF clean
                           THEN [save EXCEPT !.stage = "exportXML", !.validation = "clean",
                                             !.xml = saveXML(registry), !.published = @ + 1]
                           ELSE [save EXCEPT !.stage = "done", !.validation = "errors"]
           /\ microtasks' = SubSeq(microtasks, 1, at - 1)
                               \o SubSeq(microtasks, at + 1, Len(microtasks))
    /\ phase' = "delivered"
    /\ UNCHANGED <<registry, config, result, ruleOut, records, transactions, loaded, named,
                   calls, analysisVars, importsInFlight, lastImportedXml, isLoading,
                   lastAppliedTaskJson, initialXml, currentXml, lastLoadedXml, taskDataJson,
                   isBottleneckMode>>

\* BpmnEditor: handleSave after an await of exportXML or exportSVG.  When the
\* second export succeeded too, onSave hands the XML to Bpmnwidget's
\* handleSave, which sets it on the bpmnXML attribute; the finally block ends
\* the save on every path.
ExportSettled(succeeded) ==
    /\ microtasks = << >>
    /\ save.stage \in {"exportXML", "exportSVG"}
    /\ LET saved == succeeded /\ save.stage = "exportSVG"
           ends == saved \/ ~succeeded
       IN  /\ save' = [save EXCEPT !.stage = IF ends THEN "done" ELSE "exportSVG",
                                   !.exports = IF succeeded THEN @ + 1 ELSE @,
                                   !.onSave = IF saved THEN @ + 1 ELSE @]
           /\ hostWrites' =
                 IF saved
                 THEN Append(hostWrites, [attribute |-> "bpmnXML", xml |-> save.xml,
                                          json |-> NoJson])
                 ELSE hostWrites
           /\ isSaving' = finallyBlock(ends, isSaving)
           /\ phase' = IF saved THEN "saved" ELSE IF ends THEN "save failed" ELSE "exported"
    /\ UNCHANGED <<registry, config, result, ruleOut, records, transactions, extracted,
                   historyVars, analysisVars, importsInFlight, lastImportedXml, isLoading,
                   lastAppliedTaskJson, validationResults, microtasks, calledDuringImport,
                   initialXml, currentXml, lastLoadedXml, taskDataJson, validationMarkers,
                   isBottleneckMode, passes>>

\* Mutant of handleBottleneckAnalysis: turning the mode off leaves the markers.
handleBottleneckAnalysis_KeepsMarkers(reg, marked, mode) ==
    IF mode THEN [markers |-> marked, isBottleneckMode |-> FALSE]
    ELSE LET tasks == extractTasks(reg)
             withDuration ==
                 SelectSeq(tasks, LAMBDA t : t.duration # "" /\ trim(Chars(t.duration)) # << >>)
         IN  IF Len(withDuration) = 0
             THEN [markers |-> marked, isBottleneckMode |-> FALSE]
             ELSE [markers |-> applyBottleneckColors(reg, marked, tasks),
                   isBottleneckMode |-> TRUE]

\* BpmnEditor: handleBottleneckAnalysis, as the markers and the mode after it.
handleBottleneckAnalysis(reg, marked, mode) ==
    IF mode THEN [markers |-> clearBottleneckColors(reg, marked), isBottleneckMode |-> FALSE]
    ELSE LET tasks == extractTasks(reg)
             withDuration ==
                 SelectSeq(tasks, LAMBDA t : t.duration # "" /\ trim(Chars(t.duration)) # << >>)
         IN  IF Len(withDuration) = 0
             THEN [markers |-> marked, isBottleneckMode |-> FALSE]
             ELSE [markers |-> applyBottleneckColors(reg, marked, tasks),
                   isBottleneckMode |-> TRUE]

\* The user clicks the bottleneck button.
HandleBottleneckAnalysis ==
    /\ microtasks = << >>
    /\ calls < MaxEvents
    /\ ~isLoading
    /\ markers' = handleBottleneckAnalysis(registry, markers, isBottleneckMode).markers
    /\ isBottleneckMode' =
          handleBottleneckAnalysis(registry, markers, isBottleneckMode).isBottleneckMode
    /\ extracted' = IF isBottleneckMode THEN extracted ELSE extractTasks(registry)
    /\ calledDuringImport' =
          Invoked(IF isBottleneckMode THEN {} ELSE {"extractTasks"}, importsInFlight)
    /\ calls' = calls + 1
    /\ phase' = "toggled"
    /\ UNCHANGED <<registry, config, result, ruleOut, records, transactions, loaded, named,
                   durationString, totalMinutes, variantVars, importsInFlight,
                   lastImportedXml, isLoading, isSaving, lastAppliedTaskJson,
                   validationResults, microtasks, initialXml, currentXml, lastLoadedXml,
                   taskDataJson, hostWrites, validationMarkers, save, passes>>

HostValuesToSet == IF calls < MaxEvents /\ microtasks = << >> THEN HostValues ELSE {}

FilesToOpen ==
    IF calls < MaxEvents /\ microtasks = << >> /\ Len(importsInFlight) < MaxImports
    THEN WidgetXmls ELSE {}

DiagramsToEdit ==
    IF calls < MaxEvents /\ microtasks = << >> /\ ~isLoading
    THEN EditedDiagrams(registry) ELSE {}

NextWidget ==
    \/ \E write \in HostValuesToSet : HostSetsValue(write)
    \/ HostRendered
    \/ \E xml \in FilesToOpen : HandleOpenFile(xml)
    \/ ImportResolved
    \/ \E edited \in DiagramsToEdit : DiagramChanged(edited)
    \/ HandleSave
    \/ RunMicrotask
    \/ \E succeeded \in BOOLEAN : ExportSettled(succeeded)
    \/ HandleBottleneckAnalysis

SpecWidget == InitWidget /\ [][NextWidget]_vars

\* The event loop runs every continuation, every promise settles and the host
\* renders every value set on an attribute.
\* Weak fairness of ImportResolved and of HostRendered is written out, with
\* the guard of the action for ENABLED: each of the two changes the state
\* whenever its guard holds.
ImportPending == importsInFlight # << >>

RenderPending ==
    microtasks = << >> /\ hostWrites # << >> /\ Len(importsInFlight) < MaxImports

SpecWidgetFair ==
    /\ SpecWidget
    /\ WF_vars(RunMicrotask)
    /\ WF_vars(\E succeeded \in BOOLEAN : ExportSettled(succeeded))
    /\ ([]<>(~ImportPending) \/ []<><<ImportResolved>>_vars)
    /\ ([]<>(~RenderPending) \/ []<><<HostRendered>>_vars)

(***************************************************************************)
(* The operations together: a diagram is loaded, then validated, inspected *)
(* by a rule, or read and written by the task synchronisation.             *)
(***************************************************************************)
Init ==
    \/ InitValidation \/ InitRules \/ InitTasks \/ InitUpdates \/ InitParse
    \/ InitBottleneck \/ InitVariants \/ InitWidget

Next ==
    \/ NextValidation \/ NextRules \/ NextTasks \/ NextUpdates \/ NextSanitise
    \/ NextParse \/ NextBottleneck \/ NextVariants \/ NextWidget

Spec == Init /\ [][Next]_vars

(***************************************************************************)
(* Claims about validateDiagram (checked under SpecValidation).            *)
(***************************************************************************)
RuleEnabled(cfg, ruleId) ==
    \E i \in DOMAIN cfg : cfg[i].ruleId = ruleId /\ cfg[i].severity \in {"error", "warning"}

ElementsOfType(type) == { i \in DOMAIN registry : registry[i].type = type }

ResultsOfRule(all, ruleId) == { i \in DOMAIN all : all[i].ruleId = ruleId }

RequiredEventReported(ruleId, type) ==
    RuleEnabled(config, ruleId) =>
        IF ElementsOfType(type) = {}
        THEN \E i \in ResultsOfRule(result.all, ruleId) : result.all[i].elementId = Null
        ELSE ResultsOfRule(result.all, ruleId) = {}

\* C1: in every run that returns a result, with the rule enabled, `all` holds
\* a global result (elementId null) of "start-event-required" exactly when the
\* diagram has no StartEvent, and no result of that rule when it has one;
\* likewise "end-event-required" and EndEvent.
C1_RequiredEvents ==
    result.status = "returned" =>
        /\ RequiredEventReported("start-event-required", StartEventType)
        /\ RequiredEventReported("end-event-required", EndEventType)

C1_Witness ==
    /\ result.status = "returned"
    /\ RuleEnabled(config, "start-event-required")
    /\ RuleEnabled(config, "end-event-required")
    /\ ElementsOfType(StartEventType) = {}
    /\ ElementsOfType(EndEventType) # {}
    /\ Len(result.all) = 1
    /\ result.all[1].ruleId = "start-event-required"
    /\ result.all[1].elementId = Null

NoDuplicatePairs(all) ==
    \A i, j \in DOMAIN all :
        (all[i].ruleId = all[j].ruleId /\ all[i].elementId = all[j].elementId) => i = j

\* What the loop over a rule's violations keeps when the rule emits each of
\* its violations twice.
KeptOfDoubled(ruleId, severity, violations) ==
    forEachViolation(ruleId, severity, violations \o violations, 1,
                     [seen |-> {}, results |-> << >>]).results

\* C2: in the result of one run no two entries of `all` have the same pair
\* (ruleId, elementId), a null elementId counting as one value; the same holds
\* of what the run keeps of a rule that emits the same element twice.
C2_NoDuplicateKeys ==
    result.status = "returned" =>
        /\ NoDuplicatePairs(result.all)
        /\ \A i \in DOMAIN config :
              (config[i].severity # "off" /\ config[i].ruleId \in RegisteredRuleIds) =>
                  LET emitted == callRule(ruleRegistry(config[i].ruleId), registry).items
                      kept == KeptOfDoubled(config[i].ruleId, config[i].severity, emitted)
                  IN  NoDuplicatePairs(kept) /\ Len(kept) = Len(emitted)

C2_Witness ==
    /\ result.status = "returned"
    /\ Len(result.all) >= 3
    /\ \E i, j \in DOMAIN result.all :
          /\ i # j
          /\ result.all[i].ruleId = result.all[j].ruleId
          /\ result.all[i].elementId # result.all[j].elementId

Range(seq) == { seq[k] : k \in DOMAIN seq }

\* What the rule registered under a rule id emits on the diagram.
EmittedBy(ruleId) ==
    CASE ruleId = "start-event-required" -> startEventRule(registry)
      [] ruleId = "end-event-required" -> endEventRule(registry)
      [] ruleId = "no-orphan-elements" -> orphanElementsRule(registry)
      [] ruleId = "task-multiple-outgoing" -> taskMultipleOutgoingRule(registry)

EnabledRegistered(cfg) ==
    { i \in DOMAIN cfg :
        /\ cfg[i].severity \in {"error", "warning"}
        /\ cfg[i].ruleId \in RegisteredRuleIds }

\* The pairs (ruleId, elementId) the enabled, registered rules of the
\* configuration emit on the diagram.
EmittedPairs ==
    UNION { { << config[i].ruleId, v.elementId >> : v \in Range(EmittedBy(config[i].ruleId)) } :
            i \in EnabledRegistered(config) }

EntriesOfPair(all, pair) ==
    { k \in DOMAIN all : << all[k].ruleId, all[k].elementId >> = pair }

\* C3: every distinct pair (ruleId, elementId) an enabled, registered rule
\* emits appears exactly once in `all`: the deduplication key never conflates
\* violations that differ in ruleId or in elementId.
C3_DistinctPairsKept ==
    result.status = "returned" =>
        \A pair \in EmittedPairs : Cardinality(EntriesOfPair(result.all, pair)) = 1

C3_Witness ==
    /\ result.status = "returned"
    /\ Cardinality(EmittedPairs) >= 3
    /\ Len(result.all) = Cardinality(EmittedPairs)
    /\ \E p \in EmittedPairs : p[2] = Null
    /\ \E p \in EmittedPairs : p[2] = "global"

\* C4 (the claim as stated): a rule id that is "off" or has no implementation
\* in the registry adds no entry, raises no error and leaves the results of
\* the other rule ids as they are without it.
WithoutEntry(cfg, i) == SubSeq(cfg, 1, i - 1) \o SubSeq(cfg, i + 1, Len(cfg))

C4_SkippedSilently ==
    phase = "validated" =>
        \A i \in DOMAIN config :
            (config[i].severity = "off" \/ config[i].ruleId \notin RegisteredRuleIds) =>
                /\ result.status = "returned"
                /\ ResultsOfRule(result.all, config[i].ruleId) = {}
                /\ result = validateDiagram(registry, WithoutEntry(config, i))

\* The sub-list of a result list with one severity, in the list's order.
RECURSIVE SubListOf(_, _)
SubListOf(all, severity) ==
    IF all = << >> THEN << >>
    ELSE IF Head(all).severity = severity
         THEN << Head(all) >> \o SubListOf(Tail(all), severity)
         ELSE SubListOf(Tail(all), severity)

\* C5: errors is the sub-list of `all` with severity "error", warnings the
\* sub-list with severity "warning", both in the order of `all`, and every
\* entry of `all` is in exactly one of the two.
C5_Partition ==
    result.status = "returned" =>
        /\ result.errors = SubListOf(result.all, "error")
        /\ result.warnings = SubListOf(result.all, "warning")
        /\ \A i \in DOMAIN result.all : result.all[i].severity \in {"error", "warning"}
        /\ Len(result.errors) + Len(result.warnings) = Len(result.all)

C5_Witness ==
    /\ result.status = "returned"
    /\ Len(result.errors) >= 1
    /\ Len(result.warnings) >= 2
    /\ result.all[1].severity = "warning"

\* C8 (the claim as stated): when an enabled rule throws, the run still
\* returns, with the results of every other enabled rule.
ThrowingEntries(cfg) ==
    { i \in DOMAIN cfg :
        /\ cfg[i].severity # "off"
        /\ ruleRegistry(cfg[i].ruleId) # Undefined
        /\ ~callRule(ruleRegistry(cfg[i].ruleId), registry).isArray }

C8_ThrowingRuleSkipped ==
    (phase = "validated" /\ ThrowingEntries(config) # {}) =>
        /\ result.status = "returned"
        /\ \A pair \in EmittedPairs : EntriesOfPair(result.all, pair) # {}

(***************************************************************************)
(* Claims about the rules (checked under SpecRules).                       *)
(***************************************************************************)
ViolationsOf(elementId) ==
    { k \in DOMAIN ruleOut.violations : ruleOut.violations[k].elementId = elementId }

LastWord(type) == IF type = << >> THEN "" ELSE type[Len(type)]

ConnectionsInto(element) ==
    { k \in DOMAIN registry : registry[k].isConnection /\ registry[k].target = element.id }

ConnectionsOutOf(element) ==
    { k \in DOMAIN registry : registry[k].isConnection /\ registry[k].source = element.id }

IsOrphan(element) ==
    /\ \/ LastWord(element.type) \in {"Task", "Event", "Gateway"}
       \/ element.type \in {SubProcessType}
    /\ element.type \notin {StartEventType, EndEventType, BoundaryEventType}
    /\ ConnectionsInto(element) = {}
    /\ ConnectionsOutOf(element) = {}

\* C6: no-orphan-elements emits exactly one violation, with the element's id,
\* for each flow node that is no StartEvent, EndEvent or boundary event and
\* has no incoming and no outgoing connection, and none for any other element.
C6_OrphanElements ==
    ruleOut.rule = "orphanElementsRule" =>
        /\ \A k \in DOMAIN registry :
              Cardinality(ViolationsOf(registry[k].id)) =
                  IF IsOrphan(registry[k]) THEN 1 ELSE 0
        /\ \A k \in DOMAIN ruleOut.violations :
              \E e \in DOMAIN registry : registry[e].id = ruleOut.violations[k].elementId

C6_Witness ==
    /\ ruleOut.rule = "orphanElementsRule"
    /\ Len(ruleOut.violations) = 1
    /\ \E k \in DOMAIN registry :
          /\ registry[k].type = SubProcessType
          /\ ruleOut.violations[1].elementId = registry[k].id
    /\ \E k \in DOMAIN registry :
          registry[k].type = BoundaryEventType /\ ConnectionsInto(registry[k]) = {}
    /\ \E k \in DOMAIN registry :
          registry[k].type = CallActivityType /\ ConnectionsInto(registry[k]) = {}

UnconditionalSequenceFlowsOf(element) ==
    { k \in ConnectionsOutOf(element) :
        registry[k].type = SequenceFlowType /\ ~registry[k].conditionExpression }

\* C7: task-multiple-outgoing emits exactly one violation for a task-like
\* element with more than one outgoing unconditional SequenceFlow, however
\* many there are, and none for a task-like element with at most one.
C7_TaskMultipleOutgoing ==
    ruleOut.rule = "taskMultipleOutgoingRule" =>
        \A k \in DOMAIN registry :
            LastWord(registry[k].type) = "Task" =>
                Cardinality(ViolationsOf(registry[k].id)) =
                    IF Cardinality(UnconditionalSequenceFlowsOf(registry[k])) > 1
                    THEN 1 ELSE 0

C7_Witness ==
    /\ ruleOut.rule = "taskMultipleOutgoingRule"
    /\ Len(ruleOut.violations) = 1
    /\ \E k \in DOMAIN registry :
          /\ LastWord(registry[k].type) = "Task"
          /\ Cardinality(UnconditionalSequenceFlowsOf(registry[k])) = 2
          /\ ruleOut.violations[1].elementId = registry[k].id

(***************************************************************************)
(* Claims about extractTasks and updateTasks (checked under SpecTasks).    *)
(***************************************************************************)
TaskLike == { i \in DOMAIN registry : LastWord(registry[i].type) = "Task" }

\* The k-th task-like element in registry iteration order.
KthTask(k) == CHOOSE i \in TaskLike : Cardinality({ j \in TaskLike : j < i }) = k - 1

TaskMetricsRecords(element) ==
    IF element.ext.present
    THEN { k \in DOMAIN element.ext.values :
             element.ext.values[k].type = "custom:taskMetrics" }
    ELSE {}

\* The duration of the element's first taskMetrics record, "" without one.
StoredDuration(element) ==
    IF TaskMetricsRecords(element) = {} THEN ""
    ELSE LET first == CHOOSE k \in TaskMetricsRecords(element) :
                          \A h \in TaskMetricsRecords(element) : k <= h
         IN  element.ext.values[first].duration

\* C9: extractTasks returns one record per task-like element, in registry
\* order, whose duration is that of the element's first taskMetrics record
\* wherever it sits in the block, or "" without a block or such a record.
C9_ExtractTasks ==
    phase \in {"extracted", "extracted after update"} =>
        /\ Len(extracted) = Cardinality(TaskLike)
        /\ \A k \in DOMAIN extracted :
              /\ extracted[k].taskId = registry[KthTask(k)].id
              /\ extracted[k].duration = StoredDuration(registry[KthTask(k)])

C9_Witness ==
    /\ phase = "extracted"
    /\ Len(registry) = 2
    /\ registry[1].ext = Block(<< OtherRecord, TaskMetrics("01:00") >>)
    /\ registry[2].ext = NoExtension
    /\ Len(extracted) = 2
    /\ extracted[1].duration = "01:00"
    /\ extracted[2].duration = ""

\* The values JavaScript takes for false in a condition.
Falsy == {Str(""), UndefinedValue, NullValue, Num("0"), Num("NaN"), Bool("false")}

\* The sanitized duration of a task record.
Sanitized(duration) ==
    IF duration \in Falsy \cup {Str("[object Object]")} THEN ""
    ELSE duration.text

\* The last record of the list that names the element.
LastRecordFor(id) ==
    LET hits == { k \in DOMAIN records : records[k].taskId = id }
    IN  records[CHOOSE k \in hits : \A h \in hits : h <= k]

RoundTrips(elements) ==
    \A k \in DOMAIN records :
        \A i \in elements :
            registry[i].id = records[k].taskId =>
                \E x \in DOMAIN extracted :
                    /\ extracted[x].taskId = registry[i].id
                    /\ extracted[x].duration = Sanitized(LastRecordFor(registry[i].id).duration)

\* C10 (the claim as stated): after updateTasks(R), extractTasks returns, for
\* every element a record of R names, the sanitized duration of the last such
\* record.
C10_RoundTripAnyElement ==
    phase = "extracted after update" => RoundTrips(DOMAIN registry)

\* C10 (amended): after updateTasks(R), extractTasks returns, for every
\* task-like element a record of R names, the sanitized duration of the last
\* such record.
C10_RoundTrip ==
    phase = "extracted after update" => RoundTrips(TaskLike)

C10_Witness ==
    /\ phase = "extracted after update"
    /\ Len(records) = 2
    /\ records[1].taskId = records[2].taskId
    /\ records[1].duration = Str("[object Object]")
    /\ records[2].duration = Str("02:00")
    /\ \E i \in TaskLike :
          /\ registry[i].id = records[1].taskId
          /\ \E x \in DOMAIN extracted :
                extracted[x].taskId = registry[i].id /\ extracted[x].duration = "02:00"

(***************************************************************************)
(* Claims about updateTasks (checked under SpecUpdates and SpecTasks).     *)
(***************************************************************************)
AtMostOneTaskMetrics(reg) ==
    \A i \in DOMAIN reg : Cardinality(TaskMetricsRecords(reg[i])) <= 1

\* C11: starting from a diagram whose elements each hold at most one
\* taskMetrics record, after any sequence of updateTasks calls every element
\* still holds at most one, and an element that had none and was named by a
\* record holds exactly one.
C11_AtMostOneTaskMetrics ==
    AtMostOneTaskMetrics(loaded) =>
        /\ DOMAIN registry = DOMAIN loaded
        /\ AtMostOneTaskMetrics(registry)
        /\ \A i \in DOMAIN registry :
              (TaskMetricsRecords(loaded[i]) = {} /\ registry[i].id \in named) =>
                  Cardinality(TaskMetricsRecords(registry[i])) = 1

C11_Witness ==
    /\ calls = 2
    /\ AtMostOneTaskMetrics(loaded)
    /\ Len(records) = 2
    /\ records[1].taskId = records[2].taskId
    /\ \E i \in DOMAIN registry :
          /\ registry[i].id = records[1].taskId
          /\ loaded[i].ext = NoExtension
          /\ registry[i].ext = Block(<< TaskMetrics("02:00") >>)
    /\ \E i \in DOMAIN registry :
          /\ registry[i].id \notin named
          /\ loaded[i].ext = Block(<< OtherRecord >>)

\* The records of an element's block that are not taskMetrics records, in order.
NonTaskMetrics(element) ==
    IF element.ext.present
    THEN SelectSeq(element.ext.values, LAMBDA v : v.type # "custom:taskMetrics")
    ELSE << >>

\* C12: updateTasks leaves the sequence of non-taskMetrics records of every
\* element as it was, and leaves an element no record names entirely unchanged.
C12_OtherRecordsKept ==
    calls >= 1 =>
        /\ DOMAIN registry = DOMAIN loaded
        /\ \A i \in DOMAIN registry :
              /\ NonTaskMetrics(registry[i]) = NonTaskMetrics(loaded[i])
              /\ registry[i].id \notin named => registry[i] = loaded[i]

C12_Witness ==
    /\ phase = "updated"
    /\ Len(registry) = 2
    /\ loaded[1].ext = Block(<< OtherRecord, TaskMetrics("01:00") >>)
    /\ registry[1].ext = Block(<< OtherRecord, TaskMetrics("02:00") >>)
    /\ loaded[2].ext = Block(<< OtherRecord >>)
    /\ registry[2].id \notin named
    /\ registry[2] = loaded[2]

\* The elements a record of the last list names.
NamedElements ==
    { i \in DOMAIN registry : \E k \in DOMAIN records : records[k].taskId = registry[i].id }

SameAsOnce ==
    /\ registry = updateTasks(loaded, records).registry
    /\ \A i \in NamedElements :
          /\ Cardinality(TaskMetricsRecords(registry[i])) = 1
          /\ StoredDuration(registry[i]) = Sanitized(LastRecordFor(registry[i].id).duration)

\* C13 (the claim as stated): two updateTasks calls in a row with the same list
\* leave every block as one call does, with exactly one taskMetrics record per
\* named element, holding the duration of the list.
C13_IdempotentAnyDiagram ==
    phase = "updated twice" => SameAsOnce

\* C13 (amended): on a diagram whose elements each hold at most one taskMetrics
\* record, two updateTasks calls in a row with the same list leave every block
\* as one call does, with exactly one taskMetrics record per named element,
\* holding the duration of the list.
C13_Idempotent ==
    (phase = "updated twice" /\ AtMostOneTaskMetrics(loaded)) => SameAsOnce

C13_Witness ==
    /\ phase = "updated twice"
    /\ AtMostOneTaskMetrics(loaded)
    /\ Len(records) = 2
    /\ records[1].taskId # records[2].taskId
    /\ Cardinality(NamedElements) = 2
    /\ \E i \in NamedElements : loaded[i].ext = NoExtension
    /\ \E i \in NamedElements : loaded[i].ext = Block(<< OtherRecord, TaskMetrics("01:00") >>)

\* The taskIds of the records that name an element of the diagram, in list order.
IdsFound(reg, list) ==
    LET found == SelectSeq(list, LAMBDA r : \E i \in DOMAIN reg : reg[i].id = r.taskId)
    IN  [k \in DOMAIN found |-> found[k].taskId]

\* C14: a record whose taskId names no element changes nothing and issues no
\* updateProperties transaction, and the other records of the list are still
\* written: one transaction per record that names an element, in list order.
C14_MissingElementSkipped ==
    phase = "updated" =>
        /\ transactions = IdsFound(loaded, records)
        /\ IdsFound(loaded, records) = << >> => registry = loaded
        /\ \A i \in NamedElements :
              StoredDuration(registry[i]) = Sanitized(LastRecordFor(registry[i].id).duration)

C14_Witness ==
    /\ phase = "updated"
    /\ Len(records) = 2
    /\ records[1].taskId = MissingId
    /\ records[2].duration = Str("02:00")
    /\ transactions = << records[2].taskId >>
    /\ \E i \in DOMAIN registry :
          /\ registry[i].id = records[2].taskId
          /\ loaded[i].ext = NoExtension
          /\ registry[i].ext = Block(<< TaskMetrics("02:00") >>)

\* The sanitisation as the claim words it: only the empty string, undefined and
\* the "[object Object]" literal become "".
SanitizedAsStated(duration) ==
    IF duration \in {Str(""), UndefinedValue, Str("[object Object]")} THEN ""
    ELSE duration.text

Stores(sanitize(_)) ==
    phase = "updated" =>
        \A i \in NamedElements :
            StoredDuration(registry[i]) = sanitize(LastRecordFor(registry[i].id).duration)

\* C15 (the claim as stated): updateTasks stores "" for an empty, undefined or
\* "[object Object]" duration and String(value) for every other value.
C15_SanitisedAsStated == Stores(SanitizedAsStated)

\* C15 (amended): updateTasks stores "" for a falsy duration (empty string,
\* undefined, null, 0, NaN, false) and for the "[object Object]" literal, and
\* String(value) for every other value.
C15_Sanitised == Stores(Sanitized)

C15_Witness ==
    /\ phase = "updated"
    /\ records[1].duration = Num("0")
    /\ \E i \in NamedElements :
          /\ loaded[i].ext = Block(<< TaskMetrics("01:00") >>)
          /\ registry[i].ext = Block(<< TaskMetrics("") >>)

(***************************************************************************)
(* Claims about parseDuration (checked under SpecParse).                   *)
(***************************************************************************)
Blank(str) == \A k \in DOMAIN str : str[k] = " "

Colons(str) == { k \in DOMAIN str : str[k] = ":" }

\* The integer a part starts with, blanks before it skipped: an optional sign
\* and the longest run of digits after it; 0 when the part starts with none.
IntegerOf(part) ==
    LET blanks == CHOOSE b \in 0..Len(part) :
                      /\ \A k \in 1..b : part[k] = " "
                      /\ b < Len(part) => part[b + 1] # " "
        signs == IF blanks < Len(part) /\ part[blanks + 1] \in {"-", "+"} THEN 1 ELSE 0
        first == blanks + signs + 1
        last == CHOOSE e \in (first - 1)..Len(part) :
                    /\ \A k \in first..e : part[k] \in Digits
                    /\ e < Len(part) => part[e + 1] \notin Digits
        Power(k) == CASE k = 0 -> 1 [] k = 1 -> 10 [] k = 2 -> 100 [] k = 3 -> 1000
                      [] k = 4 -> 10000 [] k = 5 -> 100000 [] OTHER -> 1000000
        RECURSIVE Sum(_)
        Sum(k) == IF k > last THEN 0
                  ELSE DigitValue(part[k]) * Power(last - k) + Sum(k + 1)
        magnitude == Sum(first)
    IN  IF signs = 1 /\ part[blanks + 1] = "-" THEN 0 - magnitude ELSE magnitude

\* C16: parseDuration returns 0 for an empty or blank string and for a string
\* that does not split on ":" into exactly two parts; for the others it returns
\* 60 * h + m, h and m the integers the two parts start with, 0 for a part that
\* starts with none.
C16_ParseDuration ==
    phase = "parsed" =>
        IF Blank(durationString) \/ Cardinality(Colons(durationString)) # 1
        THEN totalMinutes = 0
        ELSE LET colon == CHOOSE k \in Colons(durationString) : TRUE
                 h == IntegerOf(SubSeq(durationString, 1, colon - 1))
                 m == IntegerOf(SubSeq(durationString, colon + 1, Len(durationString)))
             IN  totalMinutes = 60 * h + m

C16_Witness ==
    /\ phase = "parsed"
    /\ durationString = << "a", ":", "3", "0" >>
    /\ totalMinutes = 30

(***************************************************************************)
(* Claims about the bottleneck markers (checked under SpecBottleneck).     *)
(***************************************************************************)
MinutesOf(i) == parseDuration(Chars(StoredDuration(registry[i])))

PositiveTasks == { i \in TaskLike : MinutesOf(i) > 0 }

\* The first task, in iteration order, among those of the highest total minutes.
HighestTask ==
    CHOOSE i \in PositiveTasks :
        /\ \A j \in PositiveTasks : MinutesOf(j) <= MinutesOf(i)
        /\ \A j \in PositiveTasks : MinutesOf(j) = MinutesOf(i) => i <= j

MarkedTasks == { i \in TaskLike : registry[i].id \in markers }

\* C17: after applyBottleneckColors on the tasks extracted from the diagram, no
\* task-like element carries the marker when no task has a duration above 0
\* minutes; otherwise exactly one does, the first in iteration order among the
\* tasks of the highest total minutes, whatever earlier calls had marked.
C17_SingleBottleneck ==
    phase = "marked" =>
        MarkedTasks = IF PositiveTasks = {} THEN {} ELSE {HighestTask}

C17_Witness ==
    /\ phase = "marked"
    /\ calls = 3
    /\ Len(registry) = 2
    /\ loaded[1].ext = Block(<< TaskMetrics("02:00") >>)
    /\ loaded[2].ext = Block(<< TaskMetrics("01:00") >>)
    /\ registry[2].ext = Block(<< TaskMetrics("03:00") >>)
    /\ markers = {registry[2].id}

\* C18 (the claim as stated): after a sequence of applyBottleneckColors and
\* clearBottleneckColors calls that ends with clearBottleneckColors, no element
\* carries the marker.
C18_NoMarkerLeft ==
    phase = "cleared" => markers = {}

\* C18 (amended): after a sequence of applyBottleneckColors and
\* clearBottleneckColors calls that ends with clearBottleneckColors, no
\* task-like element carries the marker.
C18_NoTaskMarkerLeft ==
    phase = "cleared" => MarkedTasks = {}

C18_Witness ==
    /\ phase = "cleared"
    /\ calls = 3
    /\ records = << >>
    /\ Cardinality(PositiveTasks) = 2
    /\ \E i, j \in PositiveTasks : MinutesOf(i) < MinutesOf(j)
    /\ markers = {}

(***************************************************************************)
(* Claims about the editor (checked under SpecWidget).                     *)
(***************************************************************************)
\* C19: validateDiagram, extractTasks and updateTasks are never invoked on the
\* modeler while an importXML call is in flight, the initial one or a later one.
C19_NoCallDuringImport == calledDuringImport = {}

\* The validation passes started by a change notification whose results have
\* not reached onValidate yet.
PassesAwaitingDelivery == { k \in DOMAIN microtasks : microtasks[k].kind = "changed" }

\* C20: the pass a change notification starts has delivered its results to
\* onValidate before the next change notification starts its pass: at most one
\* such pass is ever under way.
C20_PassesDoNotOverlap == Cardinality(PassesAwaitingDelivery) <= 1

\* An importXML call is started in the step: only then lastImportedXmlRef is set.
ImportStarted == lastImportedXml' # lastImportedXml

\* C21 (the claim as stated): a re-import is started only for a text that
\* differs from the one last loaded, and in the editor only for a text of a
\* trimmed length above 100, in any sequence of host updates and file opens.
C21_ReimportOnlyWhenChangedAndLong ==
    [][ImportStarted =>
          /\ lastImportedXml' # lastLoadedXml
          /\ trimmedLength(lastImportedXml') > MinXmlLength]_vars

\* C21 (amended): a re-import is started only for a text that differs from the
\* one last handed to importXML, and on a host update only for a text that
\* differs from the one the editor loaded last and has a trimmed length above
\* 100; a host update or a file that delivers the text last handed to
\* importXML again starts none.
C21_ReimportOnlyWhenChanged ==
    [][/\ ImportStarted =>
             /\ lastImportedXml' = currentXml'
             /\ phase' \in {"rendered xml", "file opened"}
             /\ phase' = "rendered xml" =>
                   /\ lastImportedXml' = initialXml'
                   /\ initialXml' # lastLoadedXml
                   /\ trimmedLength(initialXml') > MinXmlLength
       /\ (phase' \in {"rendered xml", "file opened"} /\ currentXml' = lastImportedXml) =>
             importsInFlight' = importsInFlight]_vars

C21_Witness ==
    /\ phase = "rendered xml"
    /\ calls = 2
    /\ initialXml = lastImportedXml
    /\ initialXml = lastLoadedXml
    /\ importsInFlight = << >>
    /\ registry = initialXml.graph
    /\ hostWrites = << >>

(***************************************************************************)
(* Independence of the rules (checked under SpecValidation).               *)
(***************************************************************************)
Reversed(cfg) == [i \in 1..Len(cfg) |-> cfg[Len(cfg) + 1 - i]]

\* The results of one rule id, in the order of the list.
ResultListOfRule(all, ruleId) == SelectSeq(all, LAMBDA r : r.ruleId = ruleId)

\* C22 (the claim as stated): the results reported for a rule id are those of
\* a run with that rule id alone, whatever the other entries of the
\* configuration are (enabled, off or unregistered), and the same in the
\* reverse order of the rule ids.
C22_RuleResultsIndependent ==
    phase = "validated" =>
        \A i \in DOMAIN config :
            LET ruleId == config[i].ruleId
            IN  /\ ResultListOfRule(result.all, ruleId)
                     = validateDiagram(registry, << config[i] >>).all
                /\ ResultListOfRule(result.all, ruleId)
                     = ResultListOfRule(validateDiagram(registry, Reversed(config)).all,
                                        ruleId)

(***************************************************************************)
(* Claims about the editor's save (checked under SpecWidget).              *)
(***************************************************************************)
\* C23: onSave is invoked at most once per save, and only after the
\* validation run of that save returned no error and both exports succeeded;
\* a save whose validation reports an error or throws invokes no onSave and
\* publishes no task extraction.
C23_OnSaveOnlyAfterCleanSave ==
    /\ [](/\ save.onSave <= 1
          /\ save.onSave = 1 => (save.validation = "clean" /\ save.exports = 2)
          /\ save.validation \in {"errors", "threw"} =>
                (save.onSave = 0 /\ save.published = 0 /\ save.exports = 0))
    /\ [][/\ (save'.validation = "clean" /\ save.validation # "clean") =>
                (validationResults'.errors = << >> /\ phase' = "delivered")
          /\ (save'.validation = "errors" /\ save.validation # "errors") =>
                /\ validationResults'.errors # << >>
                /\ hostWrites' = hostWrites
                /\ extracted' = extracted
          /\ (save'.validation = "threw" /\ phase' = "saving") =>
                /\ validateDiagram(registry, config).status = "threw"
                /\ hostWrites' = hostWrites
                /\ extracted' = extracted
          /\ (save'.onSave > save.onSave) =>
                /\ save.stage = "exportSVG"
                /\ save.exports = 1
                /\ hostWrites' = Append(hostWrites,
                                        [attribute |-> "bpmnXML", xml |-> save.xml,
                                         json |-> NoJson])]_vars

C23_Witness ==
    /\ phase = "saved"
    /\ save.onSave = 1
    /\ save.validation = "clean"
    /\ save.xml.graph = registry
    /\ validationResults.warnings # << >>

\* C24: every save that sets isSaving to true sets it back to false, on
\* every path: validation errors, a failed export, success (checked under
\* SpecWidgetFair: continuations run and promises settle).
C24_SavingEnds == isSaving ~> ~isSaving

C24_Witness ==
    /\ phase = "save failed"
    /\ ~isSaving
    /\ save.stage = "done"
    /\ save.exports = 1
    /\ save.onSave = 0

(***************************************************************************)
(* Claims about the markers on the canvas (checked under SpecWidget).      *)
(***************************************************************************)
ElementsNamedBy(results) ==
    { id \in ElementIds(registry) :
        \E k \in DOMAIN results : results[k].elementId = id }

\* C25: when applyValidationMarkers(errors, warnings) has run, the elements
\* with the "bpmn-error" marker are those named by an entry of errors and the
\* elements with the "bpmn-warning" marker are those named by an entry of
\* warnings: markers of earlier runs are gone and results without an element
\* (elementId null) mark nothing.
C25_MarkersMatchResults ==
    phase = "delivered" =>
        /\ validationMarkers.error = ElementsNamedBy(validationResults.errors)
        /\ validationMarkers.warning = ElementsNamedBy(validationResults.warnings)

C25_Witness ==
    /\ phase = "delivered"
    /\ passes.shown >= 2
    /\ validationMarkers.error # {}
    /\ validationMarkers.warning = {}
    /\ \E k \in DOMAIN validationResults.errors :
          validationResults.errors[k].elementId = Null

\* The tasks whose stored duration is not blank.
TasksWithText == { i \in TaskLike : ~Blank(Chars(StoredDuration(registry[i]))) }

\* C26: whenever bottleneck mode is off, no element carries the
\* "bottleneck-high" marker; a click on the toggle with the mode off turns it
\* on exactly when a task of the diagram has a non-blank duration, and then
\* the markers are those applyBottleneckColors sets for the extracted tasks.
C26_NoMarkerWhenModeOff ==
    /\ [](~isBottleneckMode => markers = {})
    /\ [][(phase' = "toggled" /\ calls' # calls /\ ~isBottleneckMode) =>
             /\ isBottleneckMode' <=> (TasksWithText # {})
             /\ isBottleneckMode' =>
                   markers' = IF PositiveTasks = {} THEN {}
                              ELSE {registry[HighestTask].id}]_vars

C26_Witness ==
    /\ phase = "toggled"
    /\ calls = 2
    /\ ~isBottleneckMode
    /\ markers = {}
    /\ PositiveTasks # {}

(***************************************************************************)
(* Claims about the two variants of applyBottleneckColors (checked under   *)
(* SpecVariants).                                                          *)
(***************************************************************************)
AnalysedMinutes(k) == parseDuration(Chars(analysedTasks[k].duration))

PositiveAnalysed == { k \in DOMAIN analysedTasks : AnalysedMinutes(k) > 0 }

AllTheSameMinutes ==
    \A j, k \in PositiveAnalysed : AnalysedMinutes(j) = AnalysedMinutes(k)

\* The first task of the list among those of the highest total minutes.
FirstHighest ==
    CHOOSE k \in PositiveAnalysed :
        /\ \A j \in PositiveAnalysed : AnalysedMinutes(j) <= AnalysedMinutes(k)
        /\ \A j \in PositiveAnalysed : AnalysedMinutes(j) = AnalysedMinutes(k) => k <= j

\* C27 (the claim as stated): for every task list, when the above-average
\* variant marks an element, the element the single-maximum variant marks is
\* among those it marks; when all positive-duration tasks have the same total
\* minutes the above-average variant marks nothing and the single-maximum
\* variant marks one element.
C27_VariantsRelated ==
    phase = "compared" =>
        /\ markersAboveAverage # {} => (markers # {} /\ markers \subseteq markersAboveAverage)
        /\ AllTheSameMinutes => (markersAboveAverage = {} /\ Cardinality(markers) = 1)

\* C27 (amended): for every task list, when the above-average variant marks
\* an element, whatever the single-maximum variant marks is among the elements
\* it marks; when all positive-duration tasks have the same total minutes the
\* above-average variant marks nothing, and the single-maximum variant marks
\* one element if the list has a positive-duration task and the first of the
\* tasks with the highest total minutes names an element of the diagram, and
\* none otherwise.
C27_VariantsRelatedWhereMarked ==
    phase = "compared" =>
        /\ markersAboveAverage # {} => markers \subseteq markersAboveAverage
        /\ AllTheSameMinutes =>
              /\ markersAboveAverage = {}
              /\ markers =
                    IF /\ PositiveAnalysed # {}
                       /\ analysedTasks[FirstHighest].taskId \in ElementIds(registry)
                    THEN {analysedTasks[FirstHighest].taskId}
                    ELSE {}

C27_Witness ==
    /\ phase = "compared"
    /\ Cardinality(PositiveAnalysed) = 2
    /\ AllTheSameMinutes
    /\ markersAboveAverage = {}
    /\ Cardinality(markers) = 1

(***************************************************************************)
(* Claims about the synchronisation with the host (checked under           *)
(* SpecWidgetFair and SpecWidget).                                         *)
(***************************************************************************)
\* Nothing is pending: no continuation, no import, no export, no value set on
\* a host attribute and not rendered.
Quiescent ==
    /\ microtasks = << >>
    /\ importsInFlight = << >>
    /\ hostWrites = << >>
    /\ ~isSaving

C29_LatestPassShown ==
    /\ [][passes'.shown >= passes.shown]_vars
    /\ []((microtasks = << >> /\ passes.shown > 0) =>
             /\ passes.shown = passes.started
             /\ passes.graph = registry
             /\ validationResults.errors = validateDiagram(registry, config).errors
             /\ validationResults.warnings = validateDiagram(registry, config).warnings
             /\ validationMarkers.error = ElementsNamedBy(validationResults.errors)
             /\ validationMarkers.warning = ElementsNamedBy(validationResults.warnings))

C29_Witness ==
    /\ phase = "delivered"
    /\ microtasks = << >>
    /\ Len(transactions) = 2
    /\ passes.shown = passes.started
    /\ passes.started >= 3
    /\ passes.graph = registry
    /\ registry # loaded

\* The host renders the XML that the save last finished handed to onSave, with
\* the diagram of that XML on the canvas, no file opened since the host's XML
\* was loaded.
SavedXmlComesBack ==
    /\ phase' = "rendered xml"
    /\ save.onSave = 1
    /\ Head(hostWrites).xml = save.xml
    /\ save.xml.graph = registry
    /\ currentXml = initialXml

\* C30: while the user edits the same diagram, the XML a successful save
\* writes to the host attribute starts no re-import when it comes back as the
\* initialXml prop.
C30_SaveCausesNoReimport ==
    [][SavedXmlComesBack => importsInFlight' = importsInFlight]_vars

====
